---- MODULE Spec2Model ----
(***************************************************************************)
(* A model of the signal-to-bracket execution engine of the Hyperliquid    *)
(* copy-trading service: the order retry helpers (order_utils.py), the     *)
(* hosted trading loop (hosted_trading_loop.py) and the position monitor   *)
(* (position_monitor.py), over a shared store and a per-subscriber         *)
(* exchange account.                                                       *)
(*                                                                         *)
(* Four specifications share the variables:                                *)
(*   SpecRetry  one invocation of a *_with_retry helper                    *)
(*   SpecSize   the sizing segment of execute_trade, run twice on inputs   *)
(*              that differ in leverage only                               *)
(*   Spec       the trading loop (one or two loop instances) against the   *)
(*              store and the exchange                                     *)
(*   SpecMon    the position monitor watching one bracket                  *)
(*                                                                         *)
(* Floats are modelled as exact scaled integers: prices in PriceScale-ths, *)
(* risk fractions in basis points, quantities in 10^-szDecimals units.     *)
(***************************************************************************)
EXTENDS Integers, Sequences, FiniteSets, TLC

VARIABLES
    retry,           \* SpecRetry: the running *_with_retry invocation
    sizing,          \* SpecSize: inputs and the two runs' outcomes
    users,           \* store: follower_users rows
    signals,         \* store: signals rows
    deliveries,      \* store: signal_deliveries rows
    open_positions,  \* store: open_positions rows, in insertion order
    trades,          \* store: trades rows, in insertion order
    exch,            \* exchange: per subscriber, positions and resting orders
    tasks,           \* trading loop: one _execute_signal_for_user coroutine per (loop, delivery)
    loops,           \* trading loop instances: poll cycle state
    alerts,          \* notifier: every notify_admin call made so far
    history,         \* observations of the runs (entries placed, closes sent)
    faults,          \* number of failing answers drawn so far (model bound)
    mon              \* position monitor: tick state

vars == <<retry, sizing, users, signals, deliveries, open_positions, trades,
          exch, tasks, loops, alerts, history, faults, mon>>

----------------------------------------------------------------------------
(* Small arithmetic and sequence helpers *)

Min(a, b) == IF a <= b THEN a ELSE b

Abs(x) == IF x < 0 THEN -x ELSE x

RECURSIVE Pow10(_)
Pow10(n) == IF n = 0 THEN 1 ELSE 10 * Pow10(n - 1)

----------------------------------------------------------------------------
(* order_utils.py: retry policy *)

MAX_RETRIES == 3
INITIAL_BACKOFF == 1
MAX_BACKOFF == 8

\* str(e)[:200]: the part of an error text the retry helpers keep
ERROR_MSG_LIMIT == 200

\* len("Cancel failed: "), the prefix put before a non-ok cancel result
CANCEL_PREFIX_LEN == 15

RetryOps == {"entry", "tp", "sl", "cancel"}

\* What exchange.order can answer, by the shape the helpers probe:
\*   filled / resting / status_error : status ok, statuses[0] has that key
\*   unexpected : status ok, statuses empty or of another shape
\*   not_ok     : status is not "ok"
\*   raise      : the SDK call raised
PlaceAnswers == {"filled", "resting", "status_error", "unexpected", "not_ok", "raise"}

\* Offsets (in characters) at which a keyword may start in an error text
KwOffsets == {0, 176, 177, 178, 179, 191, 192, 193, 194}

\* Keywords an error text may carry ("none": neither)
Keywords == {"none", "not found", "Not Found", "already", "ALREADY"}

\* What exchange.cancel can answer: status ok, a non-ok result, or a raised
\* exception; the latter two carry a text in which a keyword may occur at
\* offset `at` (of str(result), respectively of str(e)).
CancelAnswers ==
    {[form |-> "ok", kw |-> "none", at |-> 0]}
    \cup {[form |-> f, kw |-> "none", at |-> 0] : f \in {"not_ok", "raise"}}
    \cup {[form |-> f, kw |-> k, at |-> a] :
            f \in {"not_ok", "raise"}, k \in Keywords \ {"none"}, a \in KwOffsets}

\* str.lower() on the keywords
Lower(kw) ==
    CASE kw = "Not Found" -> "not found"
      [] kw = "ALREADY"   -> "already"
      [] OTHER            -> kw

KwLen(kw) ==
    CASE Lower(kw) = "not found" -> 9
      [] Lower(kw) = "already"   -> 7
      [] OTHER                   -> 0

\* Where the keyword starts in str(e): a non-ok result is re-raised as
\* Exception(f"Cancel failed: {result}")
KwStart(ans) ==
    IF ans.form = "not_ok" THEN CANCEL_PREFIX_LEN + ans.at ELSE ans.at

\* "not found" in error_msg.lower() or "already" in error_msg.lower(),
\* with error_msg = str(e)[:200]
ErrorMsgHasKeyword(ans) ==
    /\ ans.form \in {"not_ok", "raise"}
    /\ Lower(ans.kw) \in {"not found", "already"}
    /\ KwStart(ans) + KwLen(ans.kw) <= ERROR_MSG_LIMIT

\* Does one attempt of the helper end in a return (rather than the except branch)?
EntryAttemptOk(ans) == ans \in {"filled", "resting", "unexpected"}

TpAttemptOk(ans) == ans \in {"resting", "filled", "unexpected"}

SlAttemptOk(ans) == ans \in {"resting", "filled", "unexpected"}

CancelAttemptOk(ans) == ans.form = "ok" \/ ErrorMsgHasKeyword(ans)

AttemptOk(op, ans) ==
    CASE op = "entry"  -> EntryAttemptOk(ans)
      [] op = "tp"     -> TpAttemptOk(ans)
      [] op = "sl"     -> SlAttemptOk(ans)
      [] op = "cancel" -> CancelAttemptOk(ans)

\* The order id a successful placement returns: the oid of the filled or
\* resting status, "unknown" otherwise
ReturnedId(op, ans) ==
    CASE op = "entry" /\ ans \in {"filled", "resting"} -> "oid"
      [] op \in {"tp", "sl"} /\ ans = "resting"        -> "oid"
      [] OTHER                                         -> "unknown"

\* A fresh invocation: backoff = INITIAL_BACKOFF, attempts_log = []
NewRetry(op) ==
    [op       |-> op,
     attempt  |-> 1,                \* the attempt about to be made
     calls    |-> 0,                \* exchange calls made
     backoff  |-> INITIAL_BACKOFF,
     sleeps   |-> << >>,            \* the asyncio.sleep durations so far
     phase    |-> "running",        \* running | returned
     ret      |-> "none",           \* none | ok | fail (None, or False for cancel)
     notified |-> FALSE]            \* notify_admin called on exhaustion

\* The loop with its bound off by one: a fourth pass is made
RetryLoopLeak(r, ans) ==
    LET r1 == [r EXCEPT !.calls = @ + 1] IN
    IF AttemptOk(r.op, ans)
    THEN [r1 EXCEPT !.phase = "returned", !.ret = "ok"]
    ELSE IF r.attempt <= MAX_RETRIES
         THEN [r1 EXCEPT !.attempt = @ + 1,
                         !.sleeps  = Append(@, r.backoff),
                         !.backoff = Min(r.backoff * 2, MAX_BACKOFF)]
         ELSE [r1 EXCEPT !.phase = "returned", !.ret = "fail", !.notified = TRUE]

\* The loop with the sleep outside `if attempt < MAX_RETRIES`: it waits after
\* the last failed attempt as well
RetryLoopTrailingSleep(r, ans) ==
    LET r1 == [r EXCEPT !.calls = @ + 1] IN
    IF AttemptOk(r.op, ans)
    THEN [r1 EXCEPT !.phase = "returned", !.ret = "ok"]
    ELSE IF r.attempt < MAX_RETRIES
         THEN [r1 EXCEPT !.attempt = @ + 1,
                         !.sleeps  = Append(@, r.backoff),
                         !.backoff = Min(r.backoff * 2, MAX_BACKOFF)]
         ELSE [r1 EXCEPT !.phase = "returned", !.ret = "fail", !.notified = TRUE,
                         !.sleeps = Append(@, r.backoff)]

\* One pass of `for attempt in range(1, MAX_RETRIES + 1)` with the exchange
\* answering ans: the call, the return on success, else the except branch
\* with its sleep, and after the last attempt the definitive failure.
RetryLoop(r, ans) ==
    LET r1 == [r EXCEPT !.calls = @ + 1] IN
    IF AttemptOk(r.op, ans)
    THEN [r1 EXCEPT !.phase = "returned", !.ret = "ok"]
    ELSE IF r.attempt < MAX_RETRIES
         THEN [r1 EXCEPT !.attempt = @ + 1,
                         !.sleeps  = Append(@, r.backoff),
                         !.backoff = Min(r.backoff * 2, MAX_BACKOFF)]
         ELSE [r1 EXCEPT !.phase = "returned", !.ret = "fail", !.notified = TRUE]

place_entry_order_with_retry(r, ans) == RetryLoop(r, ans)

place_tp_order_with_retry(r, ans) == RetryLoop(r, ans)

place_sl_order_with_retry(r, ans) == RetryLoop(r, ans)

cancel_order_with_retry(r, ans) == RetryLoop(r, ans)

RetryStep(r, ans) ==
    CASE r.op = "entry"  -> place_entry_order_with_retry(r, ans)
      [] r.op = "tp"     -> place_tp_order_with_retry(r, ans)
      [] r.op = "sl"     -> place_sl_order_with_retry(r, ans)
      [] r.op = "cancel" -> cancel_order_with_retry(r, ans)

AnswersOf(op) == IF op = "cancel" THEN CancelAnswers ELSE PlaceAnswers

----------------------------------------------------------------------------
(* SpecRetry: one invocation of a retry helper against an arbitrary exchange *)

\* retry.r is the helper's state, retry.answers every answer the exchange gave
IdleRetry == [r |-> [NewRetry("entry") EXCEPT !.phase = "idle"], answers |-> << >>]

RetryAttempt ==
    /\ retry.r.phase = "running"
    /\ \E ans \in AnswersOf(retry.r.op) :
          retry' = [r       |-> RetryStep(retry.r, ans),
                    answers |-> Append(retry.answers, ans)]
    /\ UNCHANGED <<sizing, users, signals, deliveries, open_positions, trades,
                   exch, tasks, loops, alerts, history, faults, mon>>

----------------------------------------------------------------------------
(* Text helpers: symbols are sequences of one-character strings *)

UpperChar(c) ==
    CASE c = "a" -> "A" [] c = "d" -> "D" [] c = "e" -> "E" [] c = "t" -> "T"
      [] c = "h" -> "H" [] c = "u" -> "U" [] c = "s" -> "S" [] c = "f" -> "F"
      [] c = "i" -> "I" [] OTHER -> c

\* str.upper()
Upper(s) == [i \in 1..Len(s) |-> UpperChar(s[i])]

HasChar(s, c) == \E i \in 1..Len(s) : s[i] = c

\* s.split(c)[0]
BeforeChar(s, c) ==
    IF HasChar(s, c)
    THEN SubSeq(s, 1, (CHOOSE i \in 1..Len(s) : s[i] = c /\ \A j \in 1..(i-1) : s[j] # c) - 1)
    ELSE s

StartsWith(s, p) == Len(p) <= Len(s) /\ SubSeq(s, 1, Len(p)) = p

\* str.replace(p, ''): drop every occurrence of p, scanning left to right
RECURSIVE Remove(_, _)
Remove(s, p) ==
    IF s = << >> THEN << >>
    ELSE IF StartsWith(s, p) THEN Remove(SubSeq(s, Len(p) + 1, Len(s)), p)
    ELSE <<Head(s)>> \o Remove(Tail(s), p)

\* p in s
Contains(s, p) == \E i \in 1..(Len(s) - Len(p) + 1) : SubSeq(s, i, i + Len(p) - 1) = p

RECURSIVE StripLeft(_)
StripLeft(s) == IF s # << >> /\ Head(s) = " " THEN StripLeft(Tail(s)) ELSE s

RECURSIVE StripRight(_)
StripRight(s) ==
    IF s # << >> /\ s[Len(s)] = " " THEN StripRight(SubSeq(s, 1, Len(s) - 1)) ELSE s

\* str.strip()
Strip(s) == StripRight(StripLeft(s))

PF_  == <<"P", "F", "_">>
USD  == <<"U", "S", "D">>
USDT == <<"U", "S", "D", "T">>

\* hosted_trading_loop.convert_symbol_to_hl
convert_symbol_to_hl(api_symbol) ==
    IF HasChar(api_symbol, "/")
    THEN Upper(BeforeChar(api_symbol, "/"))
    ELSE Remove(Remove(Remove(Upper(api_symbol), PF_), USD), USDT)

\* PositionMonitor.get_base_symbol
get_base_symbol(symbol) ==
    IF symbol = << >> THEN << >>
    ELSE LET up   == Upper(symbol)
             base == IF HasChar(up, "/") THEN BeforeChar(up, "/") ELSE up
         IN  Strip(Remove(Remove(Remove(base, PF_), USD), USDT))

----------------------------------------------------------------------------
(* execute_trade: validation and position sizing *)

\* Prices are integers in 1/PriceScale; risk fractions in 1/BpsScale
PriceScale == 100
BpsScale == 10000

\* (equity * risk_pct / BpsScale) / (risk_per_unit / PriceScale)
\*   = (equity * risk_pct) / (risk_per_unit * BpsScale / PriceScale)
ScaleRatio == BpsScale \div PriceScale

\* A value that may be None: << >> is None, <<n>> is the number n
None == << >>
Some(n) == <<n>>
Val(o) == o[1]

\* `not x` for an optional number: None and 0 are falsy
Falsy(o) == o = None \/ Val(o) = 0

\* round_size rounding to the nearest step above
round_size_up(szDecimals, num, den) == (num * Pow10(szDecimals) + den - 1) \div den

\* HostedTradingLoop.round_size, on position_size = num / den:
\* floor(size * 10^szDecimals) / 10^szDecimals, kept as the integer numerator
round_size(szDecimals, num, den) == (num * Pow10(szDecimals)) \div den

\* int(leverage) is what update_leverage receives; it never reaches the size
SizingResult(result, quantity) == [result |-> result, quantity |-> quantity]

\* The sizing with the risk amount multiplied by the leverage
SizeTradeLeveraged(equity, sig, szDecimals) ==
    IF equity <= 0 THEN SizingResult("no_equity", 0)
    ELSE IF Falsy(sig.stop_loss) \/ Falsy(sig.take_profit)
    THEN SizingResult("missing_sl_tp", 0)
    ELSE IF sig.leverage = None THEN SizingResult("exception", 0)
    ELSE IF Val(sig.stop_loss) <= 0 \/ Val(sig.take_profit) <= 0
    THEN SizingResult("invalid_values", 0)
    ELSE
      LET risk_per_unit == Abs(sig.entry_price - Val(sig.stop_loss)) IN
      IF risk_per_unit <= 0 THEN SizingResult("sl_distance_zero", 0)
      ELSE
        LET quantity == round_size(szDecimals,
                                   equity * sig.risk_pct * Val(sig.leverage),
                                   ScaleRatio * risk_per_unit) IN
        IF quantity <= 0 THEN SizingResult("rounds_to_zero", 0)
        ELSE IF Val(sig.leverage) = 0 THEN SizingResult("exception", 0)
        ELSE SizingResult("order", quantity)

\* Lines 400-452 of execute_trade, from the equity read to the sized quantity.
\* quantity is in units of 10^-szDecimals.
SizeTrade(equity, sig, szDecimals) ==
    IF equity <= 0 THEN SizingResult("no_equity", 0)
    ELSE IF Falsy(sig.stop_loss) \/ Falsy(sig.take_profit)
    THEN SizingResult("missing_sl_tp", 0)
    \* float(signal.get('leverage', 5.0)) raises on None
    ELSE IF sig.leverage = None THEN SizingResult("exception", 0)
    ELSE IF Val(sig.stop_loss) <= 0 \/ Val(sig.take_profit) <= 0
    THEN SizingResult("invalid_values", 0)
    ELSE
      LET risk_per_unit == Abs(sig.entry_price - Val(sig.stop_loss)) IN
      IF risk_per_unit <= 0 THEN SizingResult("sl_distance_zero", 0)
      ELSE
        \* risk_amount / risk_per_unit = (equity * risk_pct) / |entry - stop|
        LET quantity == round_size(szDecimals,
                                   equity * sig.risk_pct,
                                   ScaleRatio * risk_per_unit) IN
        IF quantity <= 0 THEN SizingResult("rounds_to_zero", 0)
        \* position_value / leverage in the log line divides by zero
        ELSE IF Val(sig.leverage) = 0 THEN SizingResult("exception", 0)
        ELSE SizingResult("order", quantity)

----------------------------------------------------------------------------
(* SpecSize: the sizing segment run twice, on inputs that differ in leverage only *)

SizeSignal(risk, stop, target, lev) ==
    [action |-> "BUY", symbol |-> <<"A", "D", "A", "/", "U", "S", "D", "T">>,
     entry_price |-> 50, stop_loss |-> stop, take_profit |-> target,
     leverage |-> lev, risk_pct |-> risk, age |-> 0]

IdleSizing == [phase |-> "idle"]

InitSizing ==
    sizing \in {[phase |-> "ready", equity |-> e, szDecimals |-> d,
                 sigA |-> SizeSignal(r, st, tg, la), sigB |-> SizeSignal(r, st, tg, lb),
                 outA |-> SizingResult("pending", 0), outB |-> SizingResult("pending", 0)] :
                e \in {0, 50, 1000}, d \in {0, 2}, r \in {200, 300},
                st \in {None, Some(0), Some(48), Some(50), Some(53)},
                tg \in {None, Some(55)},
                la \in {None, Some(0), Some(1), Some(5), Some(10)},
                lb \in {None, Some(0), Some(1), Some(5), Some(10)}}

SizeRunA ==
    /\ sizing.phase = "ready" /\ sizing.outA.result = "pending"
    /\ sizing' = [sizing EXCEPT !.outA = SizeTrade(sizing.equity, sizing.sigA, sizing.szDecimals)]
    /\ UNCHANGED <<retry, users, signals, deliveries, open_positions, trades,
                   exch, tasks, loops, alerts, history, faults, mon>>

SizeRunB ==
    /\ sizing.phase = "ready" /\ sizing.outB.result = "pending"
    /\ sizing' = [sizing EXCEPT !.outB = SizeTrade(sizing.equity, sizing.sigB, sizing.szDecimals)]
    /\ UNCHANGED <<retry, users, signals, deliveries, open_positions, trades,
                   exch, tasks, loops, alerts, history, faults, mon>>

----------------------------------------------------------------------------
(* The store and the exchange *)

Users   == {"u1"}
Signals == {"s1", "s2"}
Loops   == {"L1", "L2"}

\* One delivery row per (subscriber, signal), as broadcast_signal creates them
Deliveries == Users \X Signals

\* One coroutine slot per loop instance and delivery
TaskIds == Loops \X Deliveries

ADA_USDT == <<"A", "D", "A", "/", "U", "S", "D", "T">>
ETH_USDT == <<"E", "T", "H", "/", "U", "S", "D", "T">>
ETHFI_USDT == <<"E", "T", "H", "F", "I", "/", "U", "S", "D", "T">>

\* A NULL column value
NULL == "NULL"

\* signals.created_at is kept as the signal's age in minutes
SIGNAL_WINDOW_MINUTES == 15

InitSignals ==
    [s \in Signals |->
        IF s = "s1"
        THEN [action |-> "BUY", symbol |-> ADA_USDT, entry_price |-> 50,
              stop_loss |-> Some(48), take_profit |-> Some(55),
              leverage |-> Some(5), risk_pct |-> 200, age |-> 0]
        ELSE [action |-> "SELL", symbol |-> ETH_USDT, entry_price |-> 300000,
              stop_loss |-> Some(306000), take_profit |-> Some(285000),
              leverage |-> Some(10), risk_pct |-> 200, age |-> 0]]

InitUsers ==
    [u \in Users |-> [agent_active |-> TRUE, credentials_set |-> TRUE,
                      access_granted |-> TRUE, invoice_overdue |-> FALSE,
                      billing_cycle_start |-> NULL,
                      total_trades |-> 0, total_profit |-> 0,
                      current_cycle_profit |-> 0, current_cycle_trades |-> 0]]

InitDeliveries ==
    [d \in Deliveries |-> [acknowledged |-> FALSE, acknowledged_at |-> None,
                           executed |-> FALSE, executed_at |-> None,
                           execution_price |-> None, failed |-> FALSE]]

Coins == {convert_symbol_to_hl(InitSignals[s].symbol) : s \in Signals}

\* asset_meta[coin]['szDecimals'] (round_size falls back to 2)
SzDecimals(coin) == IF coin = <<"A", "D", "A">> THEN 0 ELSE 2

\* marginSummary.accountValue of a funded account
AccountEquity == 1000

\* marginSummary.accountValue of an account holding a dollar
DustEquity == 1

\* An account: szi per coin, the resting orders, and the fills in time order
InitExch == [u \in Users |-> [positions |-> [c \in Coins |-> 0], orders |-> {},
                              fills |-> << >>]]

\* CHECK 1 / CHECK 2 of the safety gate, as the exchange would answer them
HasOpenPosition(u) == \E c \in Coins : exch[u].positions[c] # 0
HasOpenOrders(u)   == exch[u].orders # {}

\* The exchange applies a fill of qty: a buy adds to szi, a sell subtracts
Filled(pos, is_buy, qty) == IF is_buy THEN pos + qty ELSE pos - qty

\* A reduce-only fill never opens or flips a position
ReduceOnlyFilled(pos, is_buy, qty) ==
    IF is_buy /\ pos < 0 THEN pos + Min(qty, -pos)
    ELSE IF ~is_buy /\ pos > 0 THEN pos - Min(qty, pos)
    ELSE pos

----------------------------------------------------------------------------
(* hosted_trading_loop.py *)

\* Bounds of the model
MaxFaults  == 2     \* operations (a retried leg, a query, a store write) that draw a
                    \* failing answer over a run; the attempts of one leg count once
MaxCrashes == 1     \* crashes and restarts of loop instances over a run
MaxTasks   == 2     \* loop instances times deliveries of a run

UserOf(t)     == t[2][1]
SignalOf(t)   == t[2][2]
LoopOf(t)     == t[1]
DeliveryOf(t) == t[2]

IdleTask ==
    [pc |-> "none", hold |-> FALSE, gate |-> "none", r |-> [NewRetry("entry") EXCEPT !.phase = "idle"],
     coin |-> << >>, is_buy |-> FALSE, quantity |-> 0,
     entry |-> "none", tp |-> "none", sl |-> "none", cancel |-> "none",
     close |-> "none", result |-> "none",
     held |-> FALSE, sized |-> "none"]

\* The pending query without its condition on sd.acknowledged
get_pending_signals_acknowledged_too ==
    {d \in DOMAIN deliveries :
        /\ users[d[1]].agent_active
        /\ users[d[1]].credentials_set
        /\ users[d[1]].access_granted
        /\ ~users[d[1]].invoice_overdue
        /\ signals[d[2]].age < SIGNAL_WINDOW_MINUTES}

\* HostedTradingLoop.get_pending_signals_batched: the WHERE clause
get_pending_signals_batched ==
    {d \in DOMAIN deliveries :
        /\ users[d[1]].agent_active
        /\ users[d[1]].credentials_set
        /\ users[d[1]].access_granted
        /\ ~users[d[1]].invoice_overdue
        /\ ~deliveries[d].acknowledged
        /\ signals[d[2]].age < SIGNAL_WINDOW_MINUTES}

\* A coroutine that has not suspended since its last step keeps its event
\* loop: no other coroutine of the same loop instance runs meanwhile.
CanRun(t) ==
    \A t2 \in TaskIds : (t2 # t /\ LoopOf(t2) = LoopOf(t)) => ~tasks[t2].hold

Live(t) == tasks[t].pc \notin {"none", "done", "crashed"}

\* A step that draws n failing answers spends n of the fault budget
Spend(n) == faults + n <= MaxFaults /\ faults' = faults + n
Fault    == Spend(1)
NoFault  == Spend(0)
Bit(b)   == IF b THEN 1 ELSE 0

\* notify_admin(title, details, level): level "error" is sent as CRITICAL;
\* text is the sequence of detail words of the message
Alert(t, level, title, text) == [task |-> t, level |-> level, title |-> title, text |-> text]

\* A coroutine that returns with a failure and takes the batch with it: the
\* coroutines of its batch that have not begun are dropped
FinishAborting(t, result) ==
    [t2 \in TaskIds |->
        IF t2 = t
        THEN [tasks[t] EXCEPT !.pc = "done", !.hold = FALSE, !.result = result,
                              !.r = IdleTask.r]
        ELSE IF result # "true" /\ LoopOf(t2) = LoopOf(t) /\ tasks[t2].pc = "start"
        THEN [tasks[t2] EXCEPT !.pc = "done", !.result = "cancelled"]
        ELSE tasks[t2]]

\* The coroutine returns; its retry state is dropped with its frame
Finish(t, result) ==
    [tasks EXCEPT ![t].pc = "done", ![t].hold = FALSE, ![t].result = result,
                  ![t].r = IdleTask.r]

\* poll_and_execute: fetch, shuffle, gather one coroutine per pending item
PollFetch(L) ==
    /\ loops[L] = "idle"
    /\ get_pending_signals_batched # {}
    /\ loops' = [loops EXCEPT ![L] = "polling"]
    /\ tasks' = [t \in TaskIds |->
                   IF LoopOf(t) = L /\ DeliveryOf(t) \in get_pending_signals_batched
                   THEN [IdleTask EXCEPT !.pc = "start"]
                   ELSE tasks[t]]
    /\ UNCHANGED <<retry, sizing, users, signals, deliveries, open_positions, trades,
                   exch, alerts, history, faults, mon>>

\* asyncio.gather returns once every coroutine of the batch has finished
PollDone(L) ==
    /\ loops[L] = "polling"
    /\ \A t \in TaskIds : LoopOf(t) = L => ~Live(t)
    /\ loops' = [loops EXCEPT ![L] = "idle"]
    /\ UNCHANGED <<retry, sizing, users, signals, deliveries, open_positions, trades,
                   exch, tasks, alerts, history, faults, mon>>

\* The process holding loop instance L dies and is restarted: its coroutines
\* are gone wherever they stood, the store and the exchange keep their state.
Crash(L) ==
    /\ loops[L] = "polling"
    /\ \E t \in TaskIds : LoopOf(t) = L /\ Live(t)
    /\ history.crashes < MaxCrashes
    /\ history' = [history EXCEPT !.crashes = @ + 1]
    /\ loops' = [loops EXCEPT ![L] = "idle"]
    /\ tasks' = [t \in TaskIds |->
                   IF LoopOf(t) = L /\ Live(t)
                   THEN [tasks[t] EXCEPT !.pc = "crashed", !.hold = FALSE]
                   ELSE tasks[t]]
    /\ UNCHANGED <<retry, sizing, users, signals, deliveries, open_positions, trades,
                   exch, alerts, faults, mon>>

\* execute_trade going on to its exchange setup without the UPDATE of
\* acknowledge_signal having been executed
AcknowledgeLate(t) ==
    /\ tasks[t].pc = "start" /\ CanRun(t)
    /\ NoFault
    /\ tasks' = [tasks EXCEPT ![t].pc = "check0"]
    /\ UNCHANGED <<retry, sizing, users, signals, deliveries, open_positions, trades,
                   exch, loops, alerts, history, mon>>

\* HostedTradingLoop.acknowledge_signal, called first thing in execute_trade:
\* an unconditional UPDATE by delivery id. If the store raises, the exception
\* leaves execute_trade (the call is outside its try) and is logged by
\* _execute_signal_for_user.
Acknowledge(t) ==
    /\ tasks[t].pc = "start" /\ CanRun(t)
    /\ \/ /\ NoFault
          /\ deliveries' =
                [deliveries EXCEPT
                    ![DeliveryOf(t)].acknowledged = TRUE,
                    ![DeliveryOf(t)].acknowledged_at = Some(signals[SignalOf(t)].age),
                    ![DeliveryOf(t)].executed = TRUE,
                    ![DeliveryOf(t)].executed_at = Some(signals[SignalOf(t)].age)]
          /\ tasks' = [tasks EXCEPT ![t].pc = "check0"]
       \/ /\ Fault
          /\ tasks' = Finish(t, "raised")
          /\ UNCHANGED deliveries
    /\ UNCHANGED <<retry, sizing, users, signals, open_positions, trades,
                   exch, loops, alerts, history, mon>>

\* The signal's store id, as SELECT id FROM signals WHERE signal_id = $1 finds it
SignalDbId(s) == s

\* CHECK 0 of check_any_open_positions_or_orders: the store lookups
Check0Hit(u, s) ==
    \/ \E i \in DOMAIN open_positions :
          open_positions[i].user_id = u /\ open_positions[i].signal_id = SignalDbId(s)
    \/ \E i \in DOMAIN trades :
          trades[i].user_id = u /\ trades[i].signal_id = SignalDbId(s) /\ trades[i].recent

\* execute_trade after the acknowledgment: get_or_create_exchange, then the
\* store part of the safety gate. A credential error ends the run; a hit ends
\* it with SKIPPING TRADE; a store error is caught by the gate's outer except,
\* which answers (False, None) without reaching CHECK 1 and CHECK 2.
Check0(t) ==
    /\ tasks[t].pc = "check0" /\ CanRun(t)
    /\ \/ /\ Fault                                   \* credentials cannot be decrypted
          /\ tasks' = Finish(t, "false")
       \/ /\ NoFault
          /\ tasks' = IF Check0Hit(UserOf(t), SignalOf(t))
                      THEN [Finish(t, "false") EXCEPT ![t].held = TRUE]
                      ELSE [tasks EXCEPT ![t].pc = "gate", ![t].gate = "exchange"]
       \/ /\ Fault                                   \* the store lookup raises
          /\ tasks' = [tasks EXCEPT ![t].pc = "gate", ![t].gate = "skipped",
                                    ![t].held = Check0Hit(UserOf(t), SignalOf(t))]
    /\ UNCHANGED <<retry, sizing, users, signals, deliveries, open_positions, trades,
                   exch, loops, alerts, history, mon>>

\* CHECK 1 and CHECK 2 as the code evaluates them: a query that raises is
\* logged and passed over
GateHasOpen(u, gate, posq, ordq) ==
    /\ gate = "exchange"
    /\ \/ posq = "ok" /\ HasOpenPosition(u)
       \/ ordq = "ok" /\ HasOpenOrders(u)

\* How the gate came to say "no open position or order": "clean" when CHECK 0,
\* CHECK 1 and CHECK 2 all answered, "partial" when a query raised and was
\* passed over, "skipped" when the outer except answered
GateVerdict(gate, posq, ordq) ==
    IF gate = "skipped" THEN "skipped"
    ELSE IF posq = "ok" /\ ordq = "ok" THEN "clean"
    ELSE "partial"

\* The exchange part of the gate, the equity read, validation, sizing and
\* update_leverage: one run of the coroutine without suspension, which goes
\* on into the first entry attempt (hold).
Gate(t) ==
    /\ tasks[t].pc = "gate" /\ CanRun(t)
    /\ \E posq \in {"ok", "raise"}, ordq \in {"ok", "raise"},
          equity \in {AccountEquity, DustEquity, 0} :
         LET u    == UserOf(t)
             sig  == signals[SignalOf(t)]
             coin == convert_symbol_to_hl(sig.symbol)
             size == SizeTrade(equity, sig, SzDecimals(coin))
             held == tasks[t].held \/ HasOpenPosition(u) \/ HasOpenOrders(u)
         IN
         /\ tasks[t].gate = "skipped" => posq = "ok" /\ ordq = "ok"
         /\ Spend(Bit(posq = "raise") + Bit(ordq = "raise") + Bit(equity # AccountEquity))
         /\ IF GateHasOpen(u, tasks[t].gate, posq, ordq)
            THEN tasks' = [Finish(t, "false") EXCEPT ![t].held = held] /\ UNCHANGED alerts
            ELSE IF size.result # "order"
            THEN /\ tasks' = [Finish(t, "false") EXCEPT ![t].held = held,
                                                        ![t].sized = size.result]
                 /\ alerts' = IF size.result \in {"missing_sl_tp", "invalid_values", "sl_distance_zero"}
                              THEN alerts \cup {Alert(t, "error", "SIGNAL_REJECTED", <<size.result>>)}
                              ELSE alerts
            ELSE /\ tasks' = [tasks EXCEPT ![t].pc = "entry", ![t].hold = TRUE,
                                           ![t].held = held, ![t].sized = size.result,
                                           ![t].gate = GateVerdict(tasks[t].gate, posq, ordq),
                                           ![t].r = NewRetry("entry"),
                                           ![t].coin = coin,
                                           ![t].is_buy = (sig.action = "BUY"),
                                           ![t].quantity = size.quantity]
                 /\ UNCHANGED alerts
    /\ UNCHANGED <<retry, sizing, users, signals, deliveries, open_positions, trades,
                   exch, loops, history, mon>>

Oid(t, leg) == <<t, leg>>

\* What an exchange.order call does to the account, by its answer
OrderEffect(acct, t, leg, coin, is_buy, qty, reduce_only, ans) ==
    CASE ans = "filled" ->
           [acct EXCEPT !.positions[coin] =
               IF reduce_only THEN ReduceOnlyFilled(@, is_buy, qty) ELSE Filled(@, is_buy, qty)]
      [] ans = "resting" -> [acct EXCEPT !.orders = @ \cup {Oid(t, leg)}]
      [] OTHER -> acct

\* 1. Entry IOC order: place_entry_order_with_retry, one attempt per step
EntryAttempt(t) ==
    /\ tasks[t].pc = "entry" /\ CanRun(t)
    /\ \E ans \in PlaceAnswers :
         LET u  == UserOf(t)
             r2 == place_entry_order_with_retry(tasks[t].r, ans)
         IN
         /\ Spend(Bit(ans # "filled" /\ tasks[t].r.attempt = 1))
         /\ exch' = [exch EXCEPT ![u] = OrderEffect(@, t, "entry", tasks[t].coin,
                                                    tasks[t].is_buy, tasks[t].quantity, FALSE, ans)]
         /\ history' = IF ans \in {"filled", "resting"}
                       THEN [history EXCEPT !.events = @ \cup
                               {[ev |-> "entry_placed", task |-> t, gate |-> tasks[t].gate,
                                 exposed |-> HasOpenPosition(u) \/ HasOpenOrders(u)]}]
                       ELSE history
         /\ IF r2.ret = "ok"
            THEN /\ tasks' = [tasks EXCEPT ![t].pc = "tp", ![t].hold = FALSE,
                                           ![t].r = NewRetry("tp"),
                                           ![t].entry = ReturnedId("entry", ans)]
                 /\ UNCHANGED alerts
            ELSE IF r2.ret = "fail"
            THEN /\ tasks' = Finish(t, "false")
                 /\ alerts' = alerts \cup {Alert(t, "error", "ENTRY_FAILED", << >>)}
            ELSE /\ tasks' = [tasks EXCEPT ![t].r = r2, ![t].hold = FALSE]
                 /\ UNCHANGED alerts
    /\ UNCHANGED <<retry, sizing, users, signals, deliveries, open_positions, trades,
                   loops, mon>>

\* The take-profit step going on to the stop-loss whatever its outcome
TpAttemptUngated(t) ==
    /\ tasks[t].pc = "tp" /\ CanRun(t)
    /\ \E ans \in PlaceAnswers :
         LET u  == UserOf(t)
             r2 == place_tp_order_with_retry(tasks[t].r, ans)
         IN
         /\ Spend(Bit(ans # "resting" /\ tasks[t].r.attempt = 1))
         /\ exch' = [exch EXCEPT ![u] = OrderEffect(@, t, "tp", tasks[t].coin,
                                                    ~tasks[t].is_buy, tasks[t].quantity, TRUE, ans)]
         /\ IF r2.ret = "ok"
            THEN /\ tasks' = [tasks EXCEPT ![t].pc = "sl", ![t].hold = TRUE,
                                           ![t].r = NewRetry("sl"),
                                           ![t].tp = ReturnedId("tp", ans)]
                 /\ UNCHANGED alerts
            ELSE IF r2.ret = "fail"
            THEN /\ tasks' = [tasks EXCEPT ![t].pc = "sl", ![t].hold = TRUE,
                                           ![t].r = NewRetry("sl")]
                 /\ alerts' = alerts \cup {Alert(t, "error", "TP_FAILED", << >>)}
            ELSE /\ tasks' = [tasks EXCEPT ![t].r = r2, ![t].hold = FALSE]
                 /\ UNCHANGED alerts
    /\ UNCHANGED <<retry, sizing, users, signals, deliveries, open_positions, trades,
                   loops, history, mon>>

\* 2. Take-profit trigger order, reduce-only, opposite side; on success the
\* coroutine goes on into the first stop-loss attempt without suspending
TpAttempt(t) ==
    /\ tasks[t].pc = "tp" /\ CanRun(t)
    /\ \E ans \in PlaceAnswers :
         LET u  == UserOf(t)
             r2 == place_tp_order_with_retry(tasks[t].r, ans)
         IN
         /\ Spend(Bit(ans # "resting" /\ tasks[t].r.attempt = 1))
         /\ exch' = [exch EXCEPT ![u] = OrderEffect(@, t, "tp", tasks[t].coin,
                                                    ~tasks[t].is_buy, tasks[t].quantity, TRUE, ans)]
         /\ IF r2.ret = "ok"
            THEN /\ tasks' = [tasks EXCEPT ![t].pc = "sl", ![t].hold = TRUE,
                                           ![t].r = NewRetry("sl"),
                                           ![t].tp = ReturnedId("tp", ans)]
                 /\ UNCHANGED alerts
            ELSE IF r2.ret = "fail"
            THEN /\ tasks' = [tasks EXCEPT ![t].pc = "emergency", ![t].hold = FALSE,
                                           ![t].r = IdleTask.r]
                 /\ alerts' = alerts \cup {Alert(t, "error", "TP_FAILED", << >>)}
            ELSE /\ tasks' = [tasks EXCEPT ![t].r = r2, ![t].hold = FALSE]
                 /\ UNCHANGED alerts
    /\ UNCHANGED <<retry, sizing, users, signals, deliveries, open_positions, trades,
                   loops, history, mon>>

\* 3. Stop-loss trigger order; after exhaustion the orphaned TP is cancelled
\* first (int(tp_order['id']) raises on "unknown" and the cancel is skipped)
SlAttempt(t) ==
    /\ tasks[t].pc = "sl" /\ CanRun(t)
    /\ \E ans \in PlaceAnswers :
         LET u  == UserOf(t)
             r2 == place_sl_order_with_retry(tasks[t].r, ans)
         IN
         /\ Spend(Bit(ans # "resting" /\ tasks[t].r.attempt = 1))
         /\ exch' = [exch EXCEPT ![u] = OrderEffect(@, t, "sl", tasks[t].coin,
                                                    ~tasks[t].is_buy, tasks[t].quantity, TRUE, ans)]
         /\ IF r2.ret = "ok"
            THEN /\ tasks' = [tasks EXCEPT ![t].pc = "record", ![t].hold = FALSE,
                                           ![t].r = IdleTask.r,
                                           ![t].sl = ReturnedId("sl", ans)]
                 /\ UNCHANGED alerts
            ELSE IF r2.ret = "fail"
            THEN /\ tasks' = IF tasks[t].tp = "oid"
                             THEN [tasks EXCEPT ![t].pc = "cancel", ![t].hold = FALSE,
                                                ![t].r = NewRetry("cancel")]
                             ELSE [tasks EXCEPT ![t].pc = "emergency", ![t].hold = FALSE,
                                                ![t].r = IdleTask.r]
                 /\ alerts' = alerts \cup {Alert(t, "error", "SL_FAILED", << >>)}
            ELSE /\ tasks' = [tasks EXCEPT ![t].r = r2, ![t].hold = FALSE]
                 /\ UNCHANGED alerts
    /\ UNCHANGED <<retry, sizing, users, signals, deliveries, open_positions, trades,
                   loops, history, mon>>

\* The orphaned-TP cancel whose failure ends the run without the close
CancelAttemptGivesUp(t) ==
    /\ tasks[t].pc = "cancel" /\ CanRun(t)
    /\ \E ans \in CancelAnswers :
         LET u  == UserOf(t)
             r2 == cancel_order_with_retry(tasks[t].r, ans)
         IN
         /\ Spend(Bit(ans.form # "ok" /\ tasks[t].r.attempt = 1))
         /\ exch' = IF ans.form = "ok"
                    THEN [exch EXCEPT ![u].orders = @ \ {Oid(t, "tp")}]
                    ELSE exch
         /\ IF r2.ret = "ok"
            THEN /\ tasks' = [tasks EXCEPT ![t].pc = "emergency", ![t].hold = TRUE,
                                           ![t].r = IdleTask.r, ![t].cancel = "ok"]
                 /\ UNCHANGED alerts
            ELSE IF r2.ret = "fail"
            THEN /\ tasks' = [Finish(t, "false") EXCEPT ![t].cancel = "fail"]
                 /\ alerts' = alerts \cup {Alert(t, "warning", "CANCEL_FAILED", << >>)}
            ELSE /\ tasks' = [tasks EXCEPT ![t].r = r2, ![t].hold = FALSE]
                 /\ UNCHANGED alerts
    /\ UNCHANGED <<retry, sizing, users, signals, deliveries, open_positions, trades,
                   loops, history, mon>>

\* cancel_order_with_retry on the orphaned TP; a status-ok cancel removes the order
CancelAttempt(t) ==
    /\ tasks[t].pc = "cancel" /\ CanRun(t)
    /\ \E ans \in CancelAnswers :
         LET u  == UserOf(t)
             r2 == cancel_order_with_retry(tasks[t].r, ans)
         IN
         /\ Spend(Bit(ans.form # "ok" /\ tasks[t].r.attempt = 1))
         /\ exch' = IF ans.form = "ok"
                    THEN [exch EXCEPT ![u].orders = @ \ {Oid(t, "tp")}]
                    ELSE exch
         /\ IF r2.ret = "ok"
            THEN /\ tasks' = [tasks EXCEPT ![t].pc = "emergency", ![t].hold = TRUE,
                                           ![t].r = IdleTask.r, ![t].cancel = "ok"]
                 /\ UNCHANGED alerts
            ELSE IF r2.ret = "fail"
            THEN /\ tasks' = [tasks EXCEPT ![t].pc = "emergency", ![t].hold = FALSE,
                                           ![t].r = IdleTask.r, ![t].cancel = "fail"]
                 /\ alerts' = alerts \cup {Alert(t, "warning", "CANCEL_FAILED", << >>)}
            ELSE /\ tasks' = [tasks EXCEPT ![t].r = r2, ![t].hold = FALSE]
                 /\ UNCHANGED alerts
    /\ UNCHANGED <<retry, sizing, users, signals, deliveries, open_positions, trades,
                   loops, history, mon>>

\* An immediate-or-cancel order never rests
CloseAnswers == PlaceAnswers \ {"resting"}

\* close_result.get("status") == "ok": the only thing _emergency_close_position
\* looks at before it reports success
CloseReportedOk(pre, ans) ==
    pre = "ok" /\ ans \in {"filled", "resting", "status_error", "unexpected"}

\* HostedTradingLoop._emergency_close_position: user_state and all_mids are
\* read first (either may raise, the mid may be missing: no order is sent),
\* then one reduce-only IOC order, then notify_bracket_incomplete.
EmergencyClose(t) ==
    /\ tasks[t].pc = "emergency" /\ CanRun(t)
    /\ \E pre \in {"ok", "state_raise", "mids_raise", "no_mid"}, ans \in CloseAnswers :
         LET u      == UserOf(t)
             reason == IF tasks[t].tp = "none" THEN "TP order failed after all retries"
                                               ELSE "SL order failed after all retries"
             ok     == CloseReportedOk(pre, ans)
         IN
         /\ pre # "ok" => ans = "raise"
         /\ Spend(Bit(pre # "ok" \/ ans # "filled"))
         /\ exch' = IF pre = "ok"
                    THEN [exch EXCEPT ![u] = OrderEffect(@, t, "close", tasks[t].coin,
                                               ~tasks[t].is_buy, tasks[t].quantity, TRUE, ans)]
                    ELSE exch
         /\ history' = IF pre = "ok"
                       THEN [history EXCEPT !.events = @ \cup
                               {[ev |-> "close_sent", task |-> t, answer |-> ans]}]
                       ELSE history
         /\ alerts' = alerts \cup
               {Alert(t, "error", "BRACKET_INCOMPLETE",
                      <<reason, IF ok THEN "SUCCESSFUL" ELSE "FAILED">>)}
         /\ tasks' = [Finish(t, "false") EXCEPT ![t].close = IF ok THEN "success" ELSE "failed"]
    /\ UNCHANGED <<retry, sizing, users, signals, deliveries, open_positions, trades,
                   loops, mon>>

\* RECORD OPEN POSITION: the INSERT into open_positions. A store error is
\* caught ("trade still placed") and execute_trade still returns True.
RecordPosition(t) ==
    /\ tasks[t].pc = "record" /\ CanRun(t)
    /\ \/ /\ NoFault
          /\ open_positions' = Append(open_positions,
                [id |-> Len(open_positions) + 1,
                 user_id |-> UserOf(t), signal_id |-> SignalDbId(SignalOf(t)),
                 entry_order_id |-> tasks[t].entry, tp_order_id |-> tasks[t].tp,
                 sl_order_id |-> tasks[t].sl,
                 symbol |-> signals[SignalOf(t)].symbol, hl_coin |-> tasks[t].coin,
                 side |-> signals[SignalOf(t)].action, quantity |-> tasks[t].quantity,
                 entry_fill_price |-> Some(signals[SignalOf(t)].entry_price),
                 target_tp |-> Val(signals[SignalOf(t)].take_profit),
                 target_sl |-> Val(signals[SignalOf(t)].stop_loss),
                 status |-> "open", by |-> t])
          /\ users' = [users EXCEPT ![UserOf(t)].billing_cycle_start =
                                        IF @ = NULL THEN "set" ELSE @]
       \/ /\ Fault
          /\ UNCHANGED <<open_positions, users>>
    /\ tasks' = Finish(t, "true")
    /\ UNCHANGED <<retry, sizing, signals, deliveries, trades,
                   exch, loops, alerts, history, mon>>

----------------------------------------------------------------------------
(* position_monitor.py *)

MaxTicks == 3       \* check_all_positions rounds of a run

\* find_matching_signal(..., lookback_hours=48), in minutes of signal age
LOOKBACK_MINUTES == 2880

\* The monitor when it is not running; position_fills is its audit table,
\* scans are its scan_exchange_fills coroutines, reported counts the times
\* record_fill returned True for a row
IdleMon == [phase |-> "off", ticks |-> 0, checks |-> << >>, position_fills |-> {},
            scans |-> << >>, reported |-> << >>]

\* str.upper() on the action and side words
UpperWord(w) ==
    CASE w = "buy" -> "BUY" [] w = "sell" -> "SELL"
      [] w = "long" -> "LONG" [] w = "short" -> "SHORT" [] OTHER -> w

\* str.lower() on the action and side words
LowerWord(w) ==
    CASE w = "BUY" -> "buy" [] w = "SELL" -> "sell"
      [] w = "LONG" -> "long" [] w = "SHORT" -> "short" [] OTHER -> w

\* record_trade_close: BUY/LONG become LONG, SELL/SHORT become SHORT
NormalizeSide(side) ==
    IF UpperWord(side) \in {"BUY", "LONG"} THEN "LONG"
    ELSE IF UpperWord(side) \in {"SELL", "SHORT"} THEN "SHORT"
    ELSE side

\* action_map.get(side.lower(), side.upper())
SignalAction(side) ==
    CASE LowerWord(side) = "long"  -> "BUY"
      [] LowerWord(side) = "short" -> "SELL"
      [] OTHER                     -> UpperWord(side)

\* The WHERE clause of find_matching_signal:
\* UPPER(symbol) LIKE '%base%' AND UPPER(action) = UPPER($2) AND created_at >= $3
SignalMatches(sig, symbol_base, signal_action) ==
    /\ Contains(Upper(sig.symbol), symbol_base)
    /\ UpperWord(sig.action) = UpperWord(signal_action)
    /\ sig.age <= LOOKBACK_MINUTES

\* PositionMonitor.find_matching_signal: the newest matching signal, or NULL;
\* a store error is caught and answered with None
find_matching_signal(symbol, side, q) ==
    LET hits == {s \in DOMAIN signals :
                    SignalMatches(signals[s], get_base_symbol(symbol), SignalAction(side))}
    IN  IF q = "raise" \/ hits = {} THEN NULL
        ELSE CHOOSE s \in hits : \A s2 \in hits : signals[s].age <= signals[s2].age

\* The order a row's tp_order_id / sl_order_id names, if it names one
OrderRef(p, leg) == Oid(p.by, leg)

\* any(str(o.get('oid')) == str(order_id) for o in open_orders)
OrderExists(acct, p, leg) ==
    /\ (IF leg = "tp" THEN p.tp_order_id ELSE p.sl_order_id) = "oid"
    /\ OrderRef(p, leg) \in acct.orders

\* The most recent fill of the coin, None when there is none
RECURSIVE LastFillPrice(_, _)
LastFillPrice(fills, coin) ==
    IF fills = << >> THEN None
    ELSE IF fills[Len(fills)].coin = coin THEN Some(fills[Len(fills)].px)
    ELSE LastFillPrice(SubSeq(fills, 1, Len(fills) - 1), coin)

\* check_position_closed looking at the row's own instrument only
check_position_closed_own_coin(acct, coin, p, stateq, ordq, fillq) ==
    LET tp_exists == OrderExists(acct, p, "tp")
        sl_exists == OrderExists(acct, p, "sl")
    IN
    IF stateq = "raise" \/ acct.positions[coin] # 0
    THEN [closed |-> FALSE, anomaly |-> FALSE, exit_price |-> None, exit_type |-> "UNKNOWN"]
    ELSE IF ordq = "ok" /\ tp_exists /\ sl_exists
    THEN [closed |-> FALSE, anomaly |-> TRUE, exit_price |-> None, exit_type |-> "UNKNOWN"]
    ELSE [closed     |-> TRUE,
          anomaly    |-> FALSE,
          exit_price |-> IF fillq = "raise" THEN None ELSE LastFillPrice(acct.fills, coin),
          exit_type  |-> "UNKNOWN"]

\* check_position_closed without the test for both orders still resting
check_position_closed_no_anomaly(acct, coin, p, stateq, ordq, fillq) ==
    IF stateq = "raise" \/ \E c \in DOMAIN acct.positions : acct.positions[c] # 0
    THEN [closed |-> FALSE, anomaly |-> FALSE, exit_price |-> None, exit_type |-> "UNKNOWN"]
    ELSE [closed     |-> TRUE,
          anomaly    |-> FALSE,
          exit_price |-> IF fillq = "raise" THEN None ELSE LastFillPrice(acct.fills, coin),
          exit_type  |-> "UNKNOWN"]

\* PositionMonitor.check_position_closed; stateq, ordq, fillq say whether
\* user_state, open_orders and user_fills answer or raise
check_position_closed(acct, coin, p, stateq, ordq, fillq) ==
    IF stateq = "raise"
    THEN [closed |-> FALSE, anomaly |-> FALSE, exit_price |-> None, exit_type |-> "UNKNOWN"]
    ELSE IF \E c \in DOMAIN acct.positions : acct.positions[c] # 0
    THEN [closed |-> FALSE, anomaly |-> FALSE, exit_price |-> None, exit_type |-> "UNKNOWN"]
    ELSE
      LET tp_exists == OrderExists(acct, p, "tp")
          sl_exists == OrderExists(acct, p, "sl")
      IN
      IF ordq = "ok" /\ tp_exists /\ sl_exists
      THEN [closed |-> FALSE, anomaly |-> TRUE, exit_price |-> None, exit_type |-> "UNKNOWN"]
      ELSE [closed     |-> TRUE,
            anomaly    |-> FALSE,
            exit_price |-> IF fillq = "raise" THEN None ELSE LastFillPrice(acct.fills, coin),
            exit_type  |-> IF ordq = "raise" THEN "UNKNOWN"
                           ELSE IF ~tp_exists /\ sl_exists THEN "TP"
                           ELSE IF tp_exists /\ ~sl_exists THEN "SL"
                           ELSE "UNKNOWN"]

\* The exit type by proximity with the tie given to the target
ExitTypeByProximityTieTp(exit_price, tp, sl) ==
    IF Abs(exit_price - tp) <= Abs(exit_price - sl) THEN "TP" ELSE "SL"

\* check_position: the exit type by price proximity overrides the one above
ExitTypeByProximity(exit_price, tp, sl) ==
    IF Abs(exit_price - tp) < Abs(exit_price - sl) THEN "TP" ELSE "SL"

\* Sum of closedPnl over the coin's fills since the position was opened
RECURSIVE SumClosedPnl(_, _)
SumClosedPnl(fills, coin) ==
    IF fills = << >> THEN 0
    ELSE (IF Head(fills).coin = coin /\ Head(fills).since_open THEN Head(fills).closedPnl ELSE 0)
         + SumClosedPnl(Tail(fills), coin)

\* PositionMonitor.get_hl_realized_pnl: None on an error, without fills of the
\* coin, or without fills since the position was opened
get_hl_realized_pnl(acct, coin, q) ==
    IF q = "raise" THEN None
    ELSE IF ~\E i \in DOMAIN acct.fills : acct.fills[i].coin = coin /\ acct.fills[i].since_open
    THEN None
    ELSE Some(SumClosedPnl(acct.fills, coin))

\* record_trade_close up to its first store access: "skip" on a missing entry
\* price or size and on entry = exit, else the signal lookup or the writes
RecordPrecheck(p, exit_price) ==
    IF Falsy(p.entry_fill_price) \/ p.quantity = 0 THEN "skip"
    ELSE IF Val(p.entry_fill_price) = exit_price THEN "skip"
    ELSE IF p.signal_id = NULL THEN "match"
    ELSE "record"

\* calculated_pnl, in 1/PriceScale of a dollar per quantity unit
CalculatedPnl(side, entry_price, exit_price, position_size) ==
    IF side = "LONG" THEN (exit_price - entry_price) * position_size
    ELSE (entry_price - exit_price) * position_size

\* profit_usd: the exchange's realized P&L when it is given and above a cent
ProfitUsd(side, entry_price, exit_price, position_size, hl_pnl) ==
    IF hl_pnl # None /\ Abs(Val(hl_pnl)) * 100 > PriceScale
    THEN Val(hl_pnl)
    ELSE CalculatedPnl(side, entry_price, exit_price, position_size)

\* The row INSERT INTO trades writes
TradeRow(p, signal_id, exit_price, exit_type, profit_usd) ==
    [user_id |-> p.user_id, signal_id |-> signal_id,
     kraken_order_id |-> OrderRef(p, "entry"),
     symbol |-> p.symbol, side |-> NormalizeSide(p.side),
     entry_price |-> Val(p.entry_fill_price), exit_price |-> exit_price,
     position_size |-> p.quantity, profit_usd |-> profit_usd,
     exit_type |-> exit_type, recent |-> TRUE]

\* UPDATE follower_users SET total_trades = ... + 1, total_profit = ... + $1, ...
WithTradeStats(user, profit_usd) ==
    [user EXCEPT !.total_trades = @ + 1,
                 !.total_profit = @ + profit_usd,
                 !.current_cycle_profit = @ + profit_usd,
                 !.current_cycle_trades = @ + 1]

\* The four statements of record_trade_close, each committed on its own, with
\* the first `done` of them executed: 1 INSERT INTO trades, 2 UPDATE the
\* subscriber's statistics, 3 UPDATE billing_cycle_start, 4 UPDATE the
\* position's status to 'closed'
RecordWrites(store, p, signal_id, exit_price, exit_type, hl_pnl, done) ==
    LET profit_usd == ProfitUsd(NormalizeSide(p.side), Val(p.entry_fill_price),
                                exit_price, p.quantity, hl_pnl)
        u == p.user_id
        w1 == IF done >= 1
              THEN Append(store.trades, TradeRow(p, signal_id, exit_price, exit_type, profit_usd))
              ELSE store.trades
        w2 == IF done >= 2
              THEN [store.users EXCEPT ![u] = WithTradeStats(@, profit_usd)]
              ELSE store.users
        w3 == IF done >= 3
              THEN [w2 EXCEPT ![u].billing_cycle_start = IF @ = NULL THEN "set" ELSE @]
              ELSE w2
        w4 == IF done >= 4
              THEN [store.open_positions EXCEPT ![p.id].status = "closed"]
              ELSE store.open_positions
    IN  [trades |-> w1, users |-> w3, open_positions |-> w4]

\* A check_position coroutine over the row as get_open_positions returned it
NewCheck(p) ==
    [pc |-> "check", position |-> p, exit_price |-> 0, exit_type |-> "UNKNOWN",
     hl_pnl |-> None, signal_id |-> p.signal_id,
     anomaly |-> FALSE, cancel_calls |-> 0, cancel_ret |-> "none"]

Checking(i, pc) ==
    mon.phase = "checking" /\ i \in DOMAIN mon.checks /\ mon.checks[i].pc = pc

\* record_fill for every fill user_fills returns: one position_fills row per
\* (user_id, fill_id), a fill already recorded is skipped
scan_exchange_fills(u) == {<<u, k>> : k \in DOMAIN exch[u].fills}

\* check_all_positions reading every row, whatever its status
MonTickEveryRow ==
    /\ mon.phase = "idle"
    /\ mon.ticks < MaxTicks
    /\ mon' = [mon EXCEPT
                 !.phase  = "checking",
                 !.ticks  = @ + 1,
                 !.checks = [i \in DOMAIN open_positions |-> NewCheck(open_positions[i])]]
    /\ UNCHANGED <<retry, sizing, users, signals, deliveries, open_positions, trades,
                   exch, tasks, loops, alerts, history, faults>>

\* check_all_positions reading the rows set aside for review as well
MonTickAlsoReview ==
    /\ mon.phase = "idle"
    /\ mon.ticks < MaxTicks
    /\ mon' = [mon EXCEPT
                 !.phase  = "checking",
                 !.ticks  = @ + 1,
                 !.checks = [i \in {j \in DOMAIN open_positions :
                                      open_positions[j].status \in {"open", "needs_review"}} |->
                               NewCheck(open_positions[i])]]
    /\ UNCHANGED <<retry, sizing, users, signals, deliveries, open_positions, trades,
                   exch, tasks, loops, alerts, history, faults>>

\* check_all_positions: get_open_positions (status = 'open'), then one
\* check_position coroutine per row
MonTick ==
    /\ mon.phase = "idle"
    /\ mon.ticks < MaxTicks
    /\ mon' = [mon EXCEPT
                 !.phase  = "checking",
                 !.ticks  = @ + 1,
                 !.checks = [i \in {j \in DOMAIN open_positions :
                                      open_positions[j].status = "open"} |->
                               NewCheck(open_positions[i])]]
    /\ UNCHANGED <<retry, sizing, users, signals, deliveries, open_positions, trades,
                   exch, tasks, loops, alerts, history, faults>>

\* The end of check_all_positions: the fills of every active user are scanned
MonTickDone ==
    /\ mon.phase = "checking"
    /\ \A i \in DOMAIN mon.checks : mon.checks[i].pc = "done"
    /\ mon' = [mon EXCEPT
                 !.phase  = "idle",
                 !.checks = << >>,
                 !.position_fills = @ \cup UNION {scan_exchange_fills(u) : u \in Users}]
    /\ UNCHANGED <<retry, sizing, users, signals, deliveries, open_positions, trades,
                   exch, tasks, loops, alerts, history, faults>>

\* check_position up to its first store access: check_position_closed, the
\* exit type, get_hl_realized_pnl and the early returns of record_trade_close
\* run without suspension (the info.* calls are synchronous)
CheckPosition(i) ==
    /\ Checking(i, "check")
    /\ \E stateq \in {"ok", "raise"}, ordq \in {"ok", "raise"},
          fillq \in {"ok", "raise"}, pnlq \in {"ok", "raise"} :
         LET p    == mon.checks[i].position
             acct == exch[p.user_id]
             coin == IF p.hl_coin # << >> THEN p.hl_coin ELSE get_base_symbol(p.symbol)
             res  == check_position_closed(acct, coin, p, stateq, ordq, fillq)
             flat == stateq = "ok" /\ \A c \in DOMAIN acct.positions : acct.positions[c] = 0
         IN
         \* a query that is not reached draws no answer
         /\ ~flat => ordq = "ok"
         /\ ~res.closed => fillq = "ok"
         /\ (~res.closed \/ res.exit_price = None) => pnlq = "ok"
         /\ Spend(Bit(stateq = "raise") + Bit(ordq = "raise")
                  + Bit(fillq = "raise") + Bit(pnlq = "raise"))
         /\ mon' =
              IF ~res.closed
              THEN [mon EXCEPT !.checks[i].pc = "done", !.checks[i].anomaly = res.anomaly]
              ELSE IF res.exit_price = None
              THEN [mon EXCEPT !.checks[i].pc = "review"]
              ELSE [mon EXCEPT
                      !.checks[i].exit_price = Val(res.exit_price),
                      !.checks[i].exit_type  =
                           ExitTypeByProximity(Val(res.exit_price), p.target_tp, p.target_sl),
                      !.checks[i].hl_pnl     = get_hl_realized_pnl(acct, coin, pnlq),
                      !.checks[i].pc         =
                           CASE RecordPrecheck(p, Val(res.exit_price)) = "skip"  -> "cancel"
                             [] RecordPrecheck(p, Val(res.exit_price)) = "match" -> "match"
                             [] OTHER                                            -> "record"]
    /\ UNCHANGED <<retry, sizing, users, signals, deliveries, open_positions, trades,
                   exch, tasks, loops, alerts, history>>

\* No exit price: UPDATE open_positions SET status = 'needs_review'; a store
\* error is caught by check_position
MarkNeedsReview(i) ==
    /\ Checking(i, "review")
    /\ \/ /\ NoFault
          /\ open_positions' = [open_positions EXCEPT ![i].status = "needs_review"]
       \/ /\ Fault
          /\ UNCHANGED open_positions
    /\ mon' = [mon EXCEPT !.checks[i].pc = "done"]
    /\ UNCHANGED <<retry, sizing, users, signals, deliveries, trades,
                   exch, tasks, loops, alerts, history>>

\* record_trade_close on a row without signal id: find_matching_signal, and
\* without a match UPDATE open_positions SET status = 'closed_manual'
MatchSignal(i) ==
    /\ Checking(i, "match")
    /\ \E q \in {"ok", "raise"}, w \in {"ok", "raise"} :
         LET p     == mon.checks[i].position
             found == find_matching_signal(p.symbol, NormalizeSide(p.side), q)
         IN
         /\ found # NULL => w = "ok"
         /\ Spend(Bit(q = "raise") + Bit(w = "raise"))
         /\ IF found = NULL
            THEN /\ open_positions' = IF w = "ok"
                                      THEN [open_positions EXCEPT ![i].status = "closed_manual"]
                                      ELSE open_positions
                 /\ mon' = [mon EXCEPT !.checks[i].pc = "cancel"]
            ELSE /\ UNCHANGED open_positions
                 /\ mon' = [mon EXCEPT !.checks[i].pc = "record",
                                       !.checks[i].signal_id = found]
    /\ UNCHANGED <<retry, sizing, users, signals, deliveries, trades,
                   exch, tasks, loops, alerts, history>>

\* record_trade_close on a bound or matched row: the P&L and the four writes.
\* There is no transaction around them: when statement done + 1 raises, the
\* statements before it stay committed and the function returns False.
RecordTrade(i) ==
    /\ Checking(i, "record")
    /\ \E done \in 0..4 :
         LET c     == mon.checks[i]
             after == RecordWrites([trades |-> trades, users |-> users,
                                    open_positions |-> open_positions],
                                   c.position, c.signal_id, c.exit_price, c.exit_type,
                                   c.hl_pnl, done)
         IN
         /\ Spend(Bit(done < 4))
         /\ trades' = after.trades
         /\ users' = after.users
         /\ open_positions' = after.open_positions
    /\ mon' = [mon EXCEPT !.checks[i].pc = "cancel"]
    /\ UNCHANGED <<retry, sizing, signals, deliveries, exch, tasks, loops, alerts, history>>

\* The end of check_position: exchange.cancel on the remaining order, called
\* directly (int() of an id that is no number raises; so may the call; both
\* are logged at debug level), then scan_exchange_fills for the subscriber
CancelRemaining(i) ==
    /\ Checking(i, "cancel")
    /\ \E ans \in {"ok", "raise"} :
         LET c     == mon.checks[i]
             p     == c.position
             leg   == IF c.exit_type = "TP" THEN "sl" ELSE "tp"
             named == (IF leg = "tp" THEN p.tp_order_id ELSE p.sl_order_id) = "oid"
         IN
         /\ ~named => ans = "raise"
         /\ Spend(Bit(named /\ ans = "raise"))
         /\ exch' = IF ans = "ok"
                    THEN [exch EXCEPT ![p.user_id].orders = @ \ {OrderRef(p, leg)}]
                    ELSE exch
         /\ mon' = [mon EXCEPT !.checks[i].pc = "done",
                               !.checks[i].cancel_calls = Bit(named),
                               !.checks[i].cancel_ret = ans,
                               !.position_fills = @ \cup scan_exchange_fills(p.user_id)]
    /\ UNCHANGED <<retry, sizing, users, signals, deliveries, open_positions, trades,
                   tasks, loops, alerts, history>>

----------------------------------------------------------------------------
(* The market and the subscriber acting on the account the monitor watches *)

\* closedPnl as the exchange reports it on a closing fill
ClosedPnl(p, px) ==
    CalculatedPnl(NormalizeSide(p.side), Val(p.entry_fill_price), px, p.quantity)

CloseAccount(acct, p, px) ==
    [acct EXCEPT !.positions[p.hl_coin] = 0,
                 !.fills = Append(@, [coin |-> p.hl_coin, px |-> px,
                                      closedPnl |-> ClosedPnl(p, px), since_open |-> TRUE])]

\* The take-profit or the stop-loss trigger fires and closes the position
ExitFill(i, leg) ==
    /\ mon.phase # "off"
    /\ LET p    == open_positions[i]
           acct == exch[p.user_id]
       IN
       /\ acct.positions[p.hl_coin] # 0
       /\ OrderRef(p, leg) \in acct.orders
       /\ exch' = [exch EXCEPT ![p.user_id] =
                     [CloseAccount(acct, p, IF leg = "tp" THEN p.target_tp ELSE p.target_sl)
                        EXCEPT !.orders = @ \ {OrderRef(p, leg)}]]
    /\ UNCHANGED <<retry, sizing, users, signals, deliveries, open_positions, trades,
                   tasks, loops, alerts, history, faults, mon>>

\* The subscriber closes the position by hand at price px; both triggers stay
ManualExit(i, px) ==
    /\ mon.phase # "off"
    /\ LET p == open_positions[i] IN
       /\ exch[p.user_id].positions[p.hl_coin] # 0
       /\ exch' = [exch EXCEPT ![p.user_id] = CloseAccount(@, p, px)]
    /\ UNCHANGED <<retry, sizing, users, signals, deliveries, open_positions, trades,
                   tasks, loops, alerts, history, faults, mon>>

\* The subscriber cancels a trigger that rests on a flat account
UserCancel(i, leg) ==
    /\ mon.phase # "off"
    /\ LET p == open_positions[i] IN
       /\ exch[p.user_id].positions[p.hl_coin] = 0
       /\ OrderRef(p, leg) \in exch[p.user_id].orders
       /\ exch' = [exch EXCEPT ![p.user_id].orders = @ \ {OrderRef(p, leg)}]
    /\ UNCHANGED <<retry, sizing, users, signals, deliveries, open_positions, trades,
                   tasks, loops, alerts, history, faults, mon>>

----------------------------------------------------------------------------
(* SpecMon: one bracket, as the trading loop or another writer left it *)

MonTask == <<"L1", <<"u1", "s1">>>>

\* Entry, target and stop of the bracket, by side
MonPrices(side) ==
    IF side = "BUY" THEN [entry |-> 50, tp |-> 55, sl |-> 47]
    ELSE [entry |-> 50, tp |-> 45, sl |-> 52]

MonPosition(symbol, side, signal_id) ==
    [id |-> 1, user_id |-> "u1", signal_id |-> signal_id,
     entry_order_id |-> "oid", tp_order_id |-> "oid", sl_order_id |-> "oid",
     symbol |-> symbol, hl_coin |-> convert_symbol_to_hl(symbol),
     side |-> side, quantity |-> 10,
     entry_fill_price |-> Some(MonPrices(side).entry),
     target_tp |-> MonPrices(side).tp, target_sl |-> MonPrices(side).sl,
     status |-> "open", by |-> MonTask]

MonSignal(symbol, action, age) ==
    [action |-> action, symbol |-> symbol, entry_price |-> MonPrices(action).entry,
     stop_loss |-> Some(MonPrices(action).sl), take_profit |-> Some(MonPrices(action).tp),
     leverage |-> Some(5), risk_pct |-> 200, age |-> age]

\* The account holding the bracket of row p: the position, both triggers
\* resting, and the entry fill (made before the row was written); `other` is
\* the size of a position the subscriber holds in another instrument
MonAccount(p, other) ==
    [positions |-> [c \in Coins |->
                      IF c = p.hl_coin
                      THEN (IF p.side = "BUY" THEN p.quantity ELSE -p.quantity)
                      ELSE IF c = (CHOOSE x \in Coins : x # p.hl_coin) THEN other
                      ELSE 0],
     orders    |-> {OrderRef(p, "tp"), OrderRef(p, "sl")},
     fills     |-> <<[coin |-> p.hl_coin, px |-> Val(p.entry_fill_price), closedPnl |-> 0,
                      since_open |-> FALSE]>>]

\* A row bound to a signal carries that signal's symbol and action; a row
\* without signal id stands beside any recent or old signal
InitMonWith(failing) ==
    /\ retry = IdleRetry
    /\ sizing = IdleSizing
    /\ users = InitUsers
    /\ deliveries = [d \in {<<"u1", "s1">>} |->
                       [InitDeliveries[d] EXCEPT !.acknowledged = TRUE, !.executed = TRUE,
                                                 !.acknowledged_at = Some(0),
                                                 !.executed_at = Some(0)]]
    /\ trades = << >>
    /\ tasks = [t \in TaskIds |-> IdleTask]
    /\ loops = [L \in Loops |-> "off"]
    /\ alerts = {}
    /\ history = [crashes |-> 0, events |-> {}]
    /\ faults = MaxFaults - failing
    /\ mon = [IdleMon EXCEPT !.phase = "idle"]
    /\ \E symbol \in {ADA_USDT, ETH_USDT}, side \in {"BUY", "SELL"},
          signal_id \in {NULL, "s1"},
          sig_symbol \in {ADA_USDT, ETH_USDT, ETHFI_USDT}, action \in {"BUY", "SELL"},
          age \in {10, 3000}, other \in {0, 5} :
         /\ signal_id # NULL => sig_symbol = symbol /\ action = side /\ age = 10
         /\ open_positions = <<MonPosition(symbol, side, signal_id)>>
         /\ signals = [s \in {"s1"} |-> MonSignal(sig_symbol, action, age)]
         /\ exch = [u \in Users |-> MonAccount(MonPosition(symbol, side, signal_id), other)]

NextMon ==
    \/ MonTick
    \/ MonTickDone
    \/ \E i \in DOMAIN open_positions : CheckPosition(i)
    \/ \E i \in DOMAIN open_positions : MarkNeedsReview(i)
    \/ \E i \in DOMAIN open_positions : MatchSignal(i)
    \/ \E i \in DOMAIN open_positions : RecordTrade(i)
    \/ \E i \in DOMAIN open_positions : CancelRemaining(i)
    \/ \E i \in DOMAIN open_positions, leg \in {"tp", "sl"} : ExitFill(i, leg)
    \/ \E i \in DOMAIN open_positions, px \in {50, 51, 54} : ManualExit(i, px)
    \/ \E i \in DOMAIN open_positions, leg \in {"tp", "sl"} : UserCancel(i, leg)

\* Up to MaxFaults calls of the run draw a failing answer
InitMon == InitMonWith(MaxFaults)

SpecMon == InitMon /\ [][NextMon]_vars

----------------------------------------------------------------------------
(* SpecMonLive: PositionMonitor.run ticking for ever over a bracket the
   trading loop recorded; one call of the run may fail *)

\* A tick after MaxTicks ticks; the ticks are no longer counted
MonTickAgain ==
    /\ mon.phase = "idle"
    /\ mon.ticks = MaxTicks
    /\ mon' = [mon EXCEPT
                 !.phase  = "checking",
                 !.checks = [i \in {j \in DOMAIN open_positions :
                                      open_positions[j].status = "open"} |->
                               NewCheck(open_positions[i])]]
    /\ UNCHANGED <<retry, sizing, users, signals, deliveries, open_positions, trades,
                   exch, tasks, loops, alerts, history, faults>>

\* The steps of the monitor itself, as opposed to the market's and the
\* subscriber's; a row with a signal id never reaches find_matching_signal
MonitorStep ==
    \/ MonTick
    \/ MonTickAgain
    \/ MonTickDone
    \/ \E i \in DOMAIN open_positions : CheckPosition(i)
    \/ \E i \in DOMAIN open_positions : MarkNeedsReview(i)
    \/ \E i \in DOMAIN open_positions : RecordTrade(i)
    \/ \E i \in DOMAIN open_positions : CancelRemaining(i)

InitMonLive == InitMonWith(1) /\ open_positions[1].signal_id = "s1"

NextMonLive ==
    \/ MonitorStep
    \/ \E i \in DOMAIN open_positions, leg \in {"tp", "sl"} : ExitFill(i, leg)
    \/ \E i \in DOMAIN open_positions, px \in {50, 51, 54} : ManualExit(i, px)
    \/ \E i \in DOMAIN open_positions, leg \in {"tp", "sl"} : UserCancel(i, leg)

\* run() is `while True: check_all_positions(); sleep(60)`: as long as the
\* monitor has a step to take, it takes one
SpecMonLive == InitMonLive /\ [][NextMonLive]_vars /\ WF_vars(MonitorStep)

----------------------------------------------------------------------------
(* SpecFills: scan_exchange_fills and record_fill, statement by statement *)

MaxScans == 2       \* calls of scan_exchange_fills each coroutine slot makes

\* Two coroutines that scan the fills of the same subscriber: the scans at the
\* end of check_position of two rows of one batch, or of successive ticks
FillScans == {1, 2}

IdleScan == [pc |-> "idle", user |-> "u1", k |-> 0, runs |-> 0, new_fills |-> {}]

\* The loop over fills in scan_exchange_fills moving on to the next fill, or
\* returning new_fills after the last (every fill is inside FILL_LOOKBACK_HOURS)
NextFill(scan) ==
    IF scan.k < Len(exch[scan.user].fills)
    THEN [scan EXCEPT !.pc = "select", !.k = @ + 1]
    ELSE [scan EXCEPT !.pc = "idle"]

\* scan_exchange_fills up to the first record_fill: info.user_fills; an error
\* or an empty answer returns []
ScanStart(s) ==
    /\ mon.phase = "fills"
    /\ mon.scans[s].pc = "idle"
    /\ mon.scans[s].runs < MaxScans
    /\ \E ans \in {"ok", "raise"} :
         /\ Spend(Bit(ans = "raise"))
         /\ mon' = [mon EXCEPT !.scans[s] =
                      IF ans = "raise" \/ exch[@.user].fills = << >>
                      THEN [@ EXCEPT !.runs = @ + 1, !.new_fills = {}]
                      ELSE [@ EXCEPT !.pc = "select", !.k = 1, !.runs = @ + 1,
                                     !.new_fills = {}]]
    /\ UNCHANGED <<retry, sizing, users, signals, deliveries, open_positions, trades,
                   exch, tasks, loops, alerts, history>>

\* record_fill, its SELECT: a row found returns False, an error returns False
RecordFillSelect(s) ==
    /\ mon.phase = "fills"
    /\ mon.scans[s].pc = "select"
    /\ LET scan == mon.scans[s]
           row  == <<scan.user, scan.k>>
       IN  \/ /\ NoFault
              /\ mon' = [mon EXCEPT !.scans[s] =
                           IF row \in mon.position_fills THEN NextFill(scan)
                           ELSE [scan EXCEPT !.pc = "insert"]]
           \/ /\ Fault
              /\ mon' = [mon EXCEPT !.scans[s] = NextFill(scan)]
    /\ UNCHANGED <<retry, sizing, users, signals, deliveries, open_positions, trades,
                   exch, tasks, loops, alerts, history>>

\* record_fill, its INSERT ... ON CONFLICT (user_id, fill_id) DO NOTHING and
\* its return True, which scan_exchange_fills takes as a new fill
RecordFillInsert(s) ==
    /\ mon.phase = "fills"
    /\ mon.scans[s].pc = "insert"
    /\ LET scan == mon.scans[s]
           row  == <<scan.user, scan.k>>
       IN  \/ /\ NoFault
              /\ mon' = [mon EXCEPT
                           !.position_fills = @ \cup {row},
                           !.reported[row] = @ + 1,
                           !.scans[s] = NextFill([scan EXCEPT !.new_fills = @ \cup {scan.k}])]
           \/ /\ Fault
              /\ mon' = [mon EXCEPT !.scans[s] = NextFill(scan)]
    /\ UNCHANGED <<retry, sizing, users, signals, deliveries, open_positions, trades,
                   exch, tasks, loops, alerts, history>>

\* An account with two fills, and an empty audit table
InitFills ==
    /\ retry = IdleRetry
    /\ sizing = IdleSizing
    /\ users = InitUsers
    /\ signals = InitSignals
    /\ deliveries = InitDeliveries
    /\ open_positions = << >>
    /\ trades = << >>
    /\ tasks = [t \in TaskIds |-> IdleTask]
    /\ loops = [L \in Loops |-> "off"]
    /\ alerts = {}
    /\ history = [crashes |-> 0, events |-> {}]
    /\ faults = 0
    /\ exch = [u \in Users |->
                 [InitExch[u] EXCEPT !.fills =
                    <<[coin |-> <<"A", "D", "A">>, px |-> 50, closedPnl |-> 0, since_open |-> TRUE],
                      [coin |-> <<"A", "D", "A">>, px |-> 55, closedPnl |-> 50, since_open |-> TRUE]>>]]
    /\ mon = [IdleMon EXCEPT !.phase = "fills",
                             !.scans = [s \in FillScans |-> IdleScan],
                             !.reported = [row \in Users \X {1, 2} |-> 0]]

NextFills ==
    \/ \E s \in FillScans : ScanStart(s)
    \/ \E s \in FillScans : RecordFillSelect(s)
    \/ \E s \in FillScans : RecordFillInsert(s)

SpecFills == InitFills /\ [][NextFills]_vars

----------------------------------------------------------------------------
(* SpecBatch: the batches of poll_and_execute, the executions counted *)

\* poll_and_execute: BATCH_SIZE
BATCH_SIZE == 25

MaxPending == 51    \* deliveries get_pending_signals_batched returns in a tick

\* The items of pending[i:i + BATCH_SIZE + 1]: one item too many
BatchSliceOverlapping(n, i) == {k \in 1..n : i < k /\ k <= i + BATCH_SIZE + 1}

\* The items of pending[i:i + BATCH_SIZE], items numbered from 1
BatchSlice(n, i) == {k \in 1..n : i < k /\ k <= i + BATCH_SIZE}

\* The tick of loop L1: pending is len(pending), i the loop variable, running
\* the coroutines of the gather that have not returned, launched[k] the
\* times item k was handed to _execute_signal_for_user, delays the sleeps
BatchTick == loops["L1"]

\* get_pending_signals_batched answers with n items; none ends the tick
BatchFetch ==
    /\ BatchTick.pc = "fetch"
    /\ \E n \in 0..MaxPending :
         loops' = [loops EXCEPT !["L1"] =
                     [@ EXCEPT !.pending = n,
                               !.launched = [k \in 1..n |-> 0],
                               !.pc = IF n = 0 THEN "done" ELSE "batch"]]
    /\ UNCHANGED <<retry, sizing, users, signals, deliveries, open_positions, trades,
                   exch, tasks, alerts, history, faults, mon>>

\* asyncio.gather over the batch: its coroutines are created
BatchGather ==
    /\ BatchTick.pc = "batch"
    /\ LET batch == BatchSlice(BatchTick.pending, BatchTick.i) IN
       loops' = [loops EXCEPT !["L1"] =
                   [@ EXCEPT !.pc = "gather",
                             !.running = Cardinality(batch),
                             !.largest = IF Cardinality(batch) > @ THEN Cardinality(batch) ELSE @,
                             !.launched = [k \in DOMAIN @ |->
                                             IF k \in batch THEN @[k] + 1 ELSE @[k]]]]
    /\ UNCHANGED <<retry, sizing, users, signals, deliveries, open_positions, trades,
                   exch, tasks, alerts, history, faults, mon>>

\* One _execute_signal_for_user of the batch returns or raises
\* (return_exceptions=True: the gather goes on waiting for the others)
ExecReturns ==
    /\ BatchTick.pc = "gather"
    /\ BatchTick.running > 0
    /\ loops' = [loops EXCEPT !["L1"].running = @ - 1]
    /\ UNCHANGED <<retry, sizing, users, signals, deliveries, open_positions, trades,
                   exch, tasks, alerts, history, faults, mon>>

\* The gather returns: asyncio.sleep(BATCH_DELAY) if i + BATCH_SIZE < len(pending)
BatchJoin ==
    /\ BatchTick.pc = "gather"
    /\ BatchTick.running = 0
    /\ loops' = [loops EXCEPT !["L1"].pc =
                   IF BatchTick.i + BATCH_SIZE < BatchTick.pending THEN "sleep" ELSE "done"]
    /\ UNCHANGED <<retry, sizing, users, signals, deliveries, open_positions, trades,
                   exch, tasks, alerts, history, faults, mon>>

\* The sleep ends and the for loop takes the next i
BatchWake ==
    /\ BatchTick.pc = "sleep"
    /\ loops' = [loops EXCEPT !["L1"] =
                   [@ EXCEPT !.pc = "batch", !.i = @ + BATCH_SIZE, !.delays = @ + 1]]
    /\ UNCHANGED <<retry, sizing, users, signals, deliveries, open_positions, trades,
                   exch, tasks, alerts, history, faults, mon>>

InitBatch ==
    /\ retry = IdleRetry
    /\ sizing = IdleSizing
    /\ users = InitUsers
    /\ signals = InitSignals
    /\ deliveries = InitDeliveries
    /\ open_positions = << >>
    /\ trades = << >>
    /\ exch = InitExch
    /\ tasks = [t \in TaskIds |-> IdleTask]
    /\ alerts = {}
    /\ history = [crashes |-> 0, events |-> {}]
    /\ faults = 0
    /\ mon = IdleMon
    /\ loops = [L \in Loops |->
                  [pc |-> IF L = "L1" THEN "fetch" ELSE "off", pending |-> 0, i |-> 0,
                   running |-> 0, largest |-> 0, launched |-> << >>, delays |-> 0]]

NextBatch == BatchFetch \/ BatchGather \/ ExecReturns \/ BatchJoin \/ BatchWake

SpecBatch == InitBatch /\ [][NextBatch]_vars

----------------------------------------------------------------------------
(* follower_endpoints.py: the delivery endpoints of the follower agents *)

\* config.py: SIGNAL_EXPIRATION_MINUTES
SIGNAL_EXPIRATION_MINUTES == 15

\* get_latest_signal, the check for an expired signal left out
get_latest_signal_unexpired(u) ==
    LET open == {d \in DOMAIN deliveries :
                    d[1] = u /\ ~deliveries[d].acknowledged /\ ~deliveries[d].failed}
    IN  IF ~users[u].access_granted THEN [answer |-> "no_access", delivery |-> << >>]
        ELSE IF open = {} THEN [answer |-> "none", delivery |-> << >>]
        ELSE [answer |-> "signal",
              delivery |-> CHOOSE d \in open :
                              \A d2 \in open : signals[d[2]].age <= signals[d2[2]].age]

\* get_latest_signal: the newest delivery of the caller that is neither
\* acknowledged nor failed; "expired" when its signal is past the window
get_latest_signal(u) ==
    LET open == {d \in DOMAIN deliveries :
                    d[1] = u /\ ~deliveries[d].acknowledged /\ ~deliveries[d].failed}
        latest == CHOOSE d \in open :
                     \A d2 \in open : signals[d[2]].age <= signals[d2[2]].age
    IN  IF ~users[u].access_granted THEN [answer |-> "no_access", delivery |-> << >>]
        ELSE IF open = {} THEN [answer |-> "none", delivery |-> << >>]
        ELSE IF signals[latest[2]].age > SIGNAL_EXPIRATION_MINUTES
        THEN [answer |-> "expired", delivery |-> latest]
        ELSE [answer |-> "signal", delivery |-> latest]

\* GET /api/latest-signal: an expired delivery is acknowledged and nothing is
\* returned; a returned signal stays unacknowledged
ApiGetLatestSignal(u) ==
    LET a == get_latest_signal(u) IN
    /\ deliveries' = IF a.answer = "expired"
                     THEN [deliveries EXCEPT ![a.delivery].acknowledged = TRUE]
                     ELSE deliveries
    /\ history' = IF a.answer = "expired"
                  THEN [history EXCEPT !.events = @ \cup
                          {[ev |-> "expired", delivery |-> a.delivery]}]
                  ELSE history
    /\ UNCHANGED <<retry, sizing, users, signals, open_positions, trades,
                   exch, tasks, loops, alerts, faults, mon>>

\* POST /api/acknowledge-signal
ApiAcknowledge(d) ==
    /\ deliveries' = [deliveries EXCEPT ![d].acknowledged = TRUE,
                                        ![d].acknowledged_at = Some(signals[d[2]].age)]
    /\ UNCHANGED <<retry, sizing, users, signals, open_positions, trades,
                   exch, tasks, loops, alerts, history, faults, mon>>

\* confirm_execution written without its test of delivery.executed
confirm_execution_again(row, data, now) ==
    LET executed_at == IF data.executed_at # None THEN data.executed_at ELSE Some(now)
    IN  [status   |-> "confirmed",
         delivery |-> [row EXCEPT !.acknowledged = TRUE, !.acknowledged_at = executed_at,
                                  !.executed = TRUE, !.executed_at = executed_at,
                                  !.execution_price =
                                      IF Falsy(data.execution_price) THEN @
                                      ELSE data.execution_price]]

\* confirm_execution on the caller's delivery row: the answer and the row as
\* it is committed. data.executed_at replaces utcnow() when it is given (and
\* parses); a price that is None or 0 is not stored.
confirm_execution(row, data, now) ==
    IF row.executed THEN [status |-> "already_confirmed", delivery |-> row]
    ELSE
      LET executed_at == IF data.executed_at # None THEN data.executed_at ELSE Some(now)
      IN  [status   |-> "confirmed",
           delivery |-> [row EXCEPT !.acknowledged = TRUE, !.acknowledged_at = executed_at,
                                    !.executed = TRUE, !.executed_at = executed_at,
                                    !.execution_price =
                                        IF Falsy(data.execution_price) THEN @
                                        ELSE data.execution_price]]

\* The bodies of ExecutionConfirmRequest the agents send
ConfirmRequests ==
    [executed_at : {None, Some(1)}, execution_price : {None, Some(0), Some(51)}]

\* POST /api/confirm-execution
ApiConfirmExecution(d) ==
    /\ \E data \in ConfirmRequests :
          deliveries' = [deliveries EXCEPT
                            ![d] = confirm_execution(@, data, signals[d[2]].age).delivery]
    /\ UNCHANGED <<retry, sizing, users, signals, open_positions, trades,
                   exch, tasks, loops, alerts, history, faults, mon>>

\* POST /api/mark-signal-failed
ApiMarkFailed(d) ==
    /\ deliveries' = [deliveries EXCEPT ![d].failed = TRUE]
    /\ UNCHANGED <<retry, sizing, users, signals, open_positions, trades,
                   exch, tasks, loops, alerts, history, faults, mon>>

\* The API keys that call the endpoints: the subscribers' and another one
Callers == Users \cup {"u2"}

\* retry_failed_signal without the filter on failed
retry_failed_signal_any_state(caller, d, row) ==
    IF d[1] # caller
    THEN [status |-> "not_found", delivery |-> row]
    ELSE [status   |-> "reset_for_retry",
          delivery |-> [row EXCEPT !.failed = FALSE, !.acknowledged = FALSE,
                                   !.executed = FALSE]]

\* retry_failed_signal: the row is looked up by id, user_id = the caller's id
\* and failed = true; 404 without such a row, else the three flags are reset
retry_failed_signal(caller, d, row) ==
    IF d[1] # caller \/ ~row.failed
    THEN [status |-> "not_found", delivery |-> row]
    ELSE [status   |-> "reset_for_retry",
          delivery |-> [row EXCEPT !.failed = FALSE, !.acknowledged = FALSE,
                                   !.executed = FALSE]]

\* POST /api/retry-failed-signal
ApiRetryFailed(d) ==
    /\ \E caller \in Callers :
         deliveries' = [deliveries EXCEPT ![d] = retry_failed_signal(caller, d, @).delivery]
    /\ UNCHANGED <<retry, sizing, users, signals, open_positions, trades,
                   exch, tasks, loops, alerts, history, faults, mon>>

\* Time passes: every signal's age moves on to the next of the ages looked at
AdvanceClock ==
    LET ages == {0, 14, 15, 16} IN
    /\ \E s \in DOMAIN signals : signals[s].age < 16
    /\ signals' = [s \in DOMAIN signals |->
                     [signals[s] EXCEPT !.age =
                        IF @ >= 16 THEN @
                        ELSE CHOOSE a \in ages : a > @ /\ \A b \in ages : b > @ => a <= b]]
    /\ UNCHANGED <<retry, sizing, users, deliveries, open_positions, trades,
                   exch, tasks, loops, alerts, history, faults, mon>>

----------------------------------------------------------------------------
(* HostedTradingLoop.run and PositionMonitor.run: the two control loops *)

\* Where run() of a control loop stands: "tick" in poll_and_execute or
\* check_all_positions (and the status log after it), "sleep" in the sleep
\* between ticks, "handler" in the except Exception clause, "error_sleep" in
\* the clause's sleep of 10 seconds, "cancelled" after CancelledError.

\* The handler written without its sleep: the exception leaves run()
RunHandleExits(k) ==
    /\ loops[k] = "handler"
    /\ NoFault
    /\ loops' = [loops EXCEPT ![k] = "exited"]
    /\ UNCHANGED <<retry, sizing, users, signals, deliveries, open_positions, trades,
                   exch, tasks, alerts, history, mon>>

\* One tick inside the try: it returns, or an exception reaches the top of
\* the loop
RunTick(k) ==
    /\ loops[k] = "tick"
    /\ \E out \in {"ok", "raise"} :
          /\ Spend(Bit(out = "raise"))
          /\ loops' = [loops EXCEPT ![k] = IF out = "ok" THEN "sleep" ELSE "handler"]
    /\ UNCHANGED <<retry, sizing, users, signals, deliveries, open_positions, trades,
                   exch, tasks, alerts, history, mon>>

\* except Exception: log_error_to_db (which catches its own store error),
\* in the trading loop notify_critical_error (notify_admin catches its own
\* error), then the sleep of 10 seconds
RunHandle(k) ==
    /\ loops[k] = "handler"
    /\ \E logq \in {"ok", "raise"} :
          /\ Spend(Bit(logq = "raise"))
          /\ history' = [history EXCEPT !.events = @ \cup
                            {[ev |-> "loop_error", loop |-> k, logged |-> logq = "ok"]}]
    /\ alerts' = IF k = "L1"
                 THEN alerts \cup {Alert(k, "error", "TRADING_LOOP_ERROR", << >>)}
                 ELSE alerts
    /\ loops' = [loops EXCEPT ![k] = "error_sleep"]
    /\ UNCHANGED <<retry, sizing, users, signals, deliveries, open_positions, trades,
                   exch, tasks, mon>>

\* asyncio.sleep returns and the while loop starts the next tick
RunWake(k) ==
    /\ loops[k] \in {"sleep", "error_sleep"}
    /\ loops' = [loops EXCEPT ![k] = "tick"]
    /\ UNCHANGED <<retry, sizing, users, signals, deliveries, open_positions, trades,
                   exch, tasks, alerts, history, faults, mon>>

\* The task of the loop is cancelled: CancelledError is raised at the await
\* the loop stands at and run() ends
RunCancel(k) ==
    /\ loops[k] \in {"tick", "sleep", "handler", "error_sleep"}
    /\ loops' = [loops EXCEPT ![k] = "cancelled"]
    /\ UNCHANGED <<retry, sizing, users, signals, deliveries, open_positions, trades,
                   exch, tasks, alerts, history, faults, mon>>

----------------------------------------------------------------------------
(* The specifications *)

\* A run starts after broadcast_signal has stored the signals of `sent` with
\* one delivery row per subscriber, and with the loop instances of `up` started
\* by start_hosted_trading (the others stay "off").
Deployments ==
    {<<up, sent>> \in (SUBSET Loops) \X (SUBSET Signals) :
        /\ "L1" \in up /\ "s1" \in sent
        /\ Cardinality(up) * Cardinality(Users) * Cardinality(sent) <= MaxTasks}

Init ==
    /\ retry = IdleRetry
    /\ sizing = IdleSizing
    /\ users = InitUsers
    /\ open_positions = << >>
    /\ trades = << >>
    /\ exch = InitExch
    /\ tasks = [t \in TaskIds |-> IdleTask]
    /\ \E dep \in Deployments :
          /\ loops = [L \in Loops |-> IF L \in dep[1] THEN "idle" ELSE "off"]
          /\ signals = [s \in dep[2] |-> InitSignals[s]]
          /\ deliveries = [d \in Users \X dep[2] |-> InitDeliveries[d]]
    /\ alerts = {}
    /\ history = [crashes |-> 0, events |-> {}]
    /\ faults = 0
    /\ mon = IdleMon

Next ==
    \/ \E L \in Loops : PollFetch(L)
    \/ \E L \in Loops : PollDone(L)
    \/ \E L \in Loops : Crash(L)
    \/ \E t \in TaskIds : Acknowledge(t)
    \/ \E t \in TaskIds : Check0(t)
    \/ \E t \in TaskIds : Gate(t)
    \/ \E t \in TaskIds : EntryAttempt(t)
    \/ \E t \in TaskIds : TpAttempt(t)
    \/ \E t \in TaskIds : SlAttempt(t)
    \/ \E t \in TaskIds : CancelAttempt(t)
    \/ \E t \in TaskIds : EmergencyClose(t)
    \/ \E t \in TaskIds : RecordPosition(t)

Spec == Init /\ [][Next]_vars

InitRetry ==
    /\ retry \in {[r |-> NewRetry(op), answers |-> << >>] : op \in RetryOps}
    /\ sizing = IdleSizing
    /\ users = InitUsers
    /\ signals = InitSignals
    /\ deliveries = InitDeliveries
    /\ open_positions = << >>
    /\ trades = << >>
    /\ exch = InitExch
    /\ tasks = [t \in TaskIds |-> IdleTask]
    /\ loops = [L \in Loops |-> "idle"]
    /\ alerts = {}
    /\ history = [crashes |-> 0, events |-> {}]
    /\ faults = 0
    /\ mon = IdleMon

NextRetry == RetryAttempt

SpecRetry == InitRetry /\ [][NextRetry]_vars

InitSize ==
    /\ retry = IdleRetry
    /\ InitSizing
    /\ users = InitUsers
    /\ signals = InitSignals
    /\ deliveries = InitDeliveries
    /\ open_positions = << >>
    /\ trades = << >>
    /\ exch = InitExch
    /\ tasks = [t \in TaskIds |-> IdleTask]
    /\ loops = [L \in Loops |-> "idle"]
    /\ alerts = {}
    /\ history = [crashes |-> 0, events |-> {}]
    /\ faults = 0
    /\ mon = IdleMon

NextSize == SizeRunA \/ SizeRunB

SpecSize == InitSize /\ [][NextSize]_vars

\* One loop instance, one signal broadcast to one subscriber whose account
\* flags are whatever they are, and the subscriber's agent calling the endpoints
\* at any time; of the answers the loop draws over the run, at most one fails
InitApi ==
    /\ retry = IdleRetry
    /\ sizing = IdleSizing
    /\ users \in [Users -> {[InitUsers[u] EXCEPT !.agent_active = f[1], !.credentials_set = f[2],
                                                !.access_granted = f[3], !.invoice_overdue = f[4]] :
                              u \in Users, f \in BOOLEAN \X BOOLEAN \X BOOLEAN \X BOOLEAN}]
    /\ open_positions = << >>
    /\ trades = << >>
    /\ exch = InitExch
    /\ tasks = [t \in TaskIds |-> IdleTask]
    /\ loops = [L \in Loops |-> IF L = "L1" THEN "idle" ELSE "off"]
    /\ signals = [s \in {"s1"} |-> InitSignals[s]]
    /\ deliveries = [d \in Users \X {"s1"} |-> InitDeliveries[d]]
    /\ alerts = {}
    /\ history = [crashes |-> 0, events |-> {}]
    /\ faults = MaxFaults - 1
    /\ mon = IdleMon

NextApi ==
    \/ Next
    \/ \E u \in Users : ApiGetLatestSignal(u)
    \/ \E d \in DOMAIN deliveries : ApiAcknowledge(d)
    \/ \E d \in DOMAIN deliveries : ApiConfirmExecution(d)
    \/ \E d \in DOMAIN deliveries : ApiMarkFailed(d)
    \/ \E d \in DOMAIN deliveries : ApiRetryFailed(d)
    \/ AdvanceClock

SpecApi == InitApi /\ [][NextApi]_vars

\* The trading loop ("L1") and the position monitor, each in its first tick
InitRun ==
    /\ retry = IdleRetry
    /\ sizing = IdleSizing
    /\ users = InitUsers
    /\ signals = InitSignals
    /\ deliveries = InitDeliveries
    /\ open_positions = << >>
    /\ trades = << >>
    /\ exch = InitExch
    /\ tasks = [t \in TaskIds |-> IdleTask]
    /\ loops = [k \in {"L1", "monitor"} |-> "tick"]
    /\ alerts = {}
    /\ history = [crashes |-> 0, events |-> {}]
    /\ faults = 0
    /\ mon = IdleMon

NextRun ==
    \/ \E k \in DOMAIN loops : RunTick(k)
    \/ \E k \in DOMAIN loops : RunHandle(k)
    \/ \E k \in DOMAIN loops : RunWake(k)
    \/ \E k \in DOMAIN loops : RunCancel(k)

\* The event loop runs a coroutine whose await has returned: the handler's
\* calls return or raise, and a sleep ends
SpecRun ==
    /\ InitRun /\ [][NextRun]_vars
    /\ \A k \in {"L1", "monitor"} : WF_vars(RunHandle(k)) /\ WF_vars(RunWake(k))

----------------------------------------------------------------------------
(* Properties of the trading loop (Spec) *)

HasRow(t) == \E i \in DOMAIN open_positions : open_positions[i].by = t

CloseFilled(t) == [ev |-> "close_sent", task |-> t, answer |-> "filled"] \in history.events

CriticalAlert(t) == \E a \in alerts : a.task = t /\ a.level = "error"

\* C1: for every (signal, subscriber) pair at most one Open Position row is
\* ever created, also when two poll cycles run over the same pending delivery
\* and when a loop instance crashes and restarts.
C1_OneRowPerDelivery ==
    \A i, j \in DOMAIN open_positions :
        (/\ open_positions[i].user_id = open_positions[j].user_id
         /\ open_positions[i].signal_id = open_positions[j].signal_id) => i = j

\* C2: when two concurrent poll cycles have fetched the same pending delivery,
\* only one of them places an entry order for it.
C2_OneEntryPerDelivery ==
    \A e1, e2 \in history.events :
        (/\ e1.ev = "entry_placed" /\ e2.ev = "entry_placed"
         /\ DeliveryOf(e1.task) = DeliveryOf(e2.task)) => e1.task = e2.task

\* C3: after a run of execute_trade has returned, the Open Position row of
\* that run exists if and only if entry, TP and SL were all placed; with a leg
\* missing there is no row, and the entry fill is gone or a CRITICAL alert
\* was sent.
C3_RowIffBracket ==
    \A t \in TaskIds :
        (tasks[t].pc = "done" /\ tasks[t].result \in {"true", "false"}) =>
            LET complete == tasks[t].entry # "none" /\ tasks[t].tp # "none"
                            /\ tasks[t].sl # "none"
            IN  /\ HasRow(t) <=> complete
                /\ (tasks[t].entry # "none" /\ ~complete) =>
                      (~HasOpenPosition(UserOf(t)) \/ CriticalAlert(t))

\* C4: with one loop instance running, no entry order is placed on an account
\* that already holds an open position or a resting order, for every run
\* whose safety gate got an answer to each of its three checks.
C4_NoEntryWhileExposed ==
    loops["L2"] = "off" =>
        \A e \in history.events :
            (e.ev = "entry_placed" /\ e.gate = "clean") => ~e.exposed

\* C10: when the TP placement is exhausted after a placed entry, no SL is
\* placed and no Open Position row is written, and the BRACKET_INCOMPLETE
\* alert says SUCCESSFUL exactly when the emergency close order was filled.
C10_TpExhausted ==
    \A t \in TaskIds :
        (/\ tasks[t].pc = "done" /\ tasks[t].close # "none"
         /\ tasks[t].entry # "none" /\ tasks[t].tp = "none") =>
            /\ tasks[t].sl = "none"
            /\ ~HasRow(t)
            /\ \E a \in alerts : a.task = t /\ a.title = "BRACKET_INCOMPLETE"
            /\ \A a \in alerts :
                  (a.task = t /\ a.title = "BRACKET_INCOMPLETE") =>
                      (a.text[2] = "SUCCESSFUL" <=> CloseFilled(t))

----------------------------------------------------------------------------
(* Properties of the sizing (SpecSize) *)

\* C5: with equity, risk fraction, entry, stop and precision fixed, two runs
\* that both size an order size the same quantity, whatever their leverage.
C5_QuantityIgnoresLeverage ==
    (/\ sizing.phase = "ready"
     /\ sizing.outA.result = "order" /\ sizing.outB.result = "order")
        => sizing.outA.quantity = sizing.outB.quantity

C5_Witness ==
    /\ sizing.phase = "ready"
    /\ sizing.outA.result = "order" /\ sizing.outB.result = "order"
    /\ sizing.sigA.leverage # sizing.sigB.leverage

----------------------------------------------------------------------------
(* Properties of the retry helpers (SpecRetry) *)

AllFailed(op, answers) == \A i \in DOMAIN answers : ~AttemptOk(op, answers[i])

\* C6: an invocation of a retry helper calls the exchange at most MAX_RETRIES
\* times, makes no call after a successful one, and returns the definitive
\* failure exactly when MAX_RETRIES calls were made and all of them failed.
C6_AtMostThreeCalls ==
    LET r == retry.r
        a == retry.answers
    IN  /\ r.calls = Len(a)
        /\ Len(a) <= MAX_RETRIES
        /\ \A i \in 1..(Len(a) - 1) : ~AttemptOk(r.op, a[i])
        /\ r.phase = "running" => (r.ret = "none" /\ AllFailed(r.op, a))
        /\ r.phase = "returned" =>
              /\ r.ret \in {"ok", "fail"}
              /\ r.ret = "fail" <=> (Len(a) = MAX_RETRIES /\ AllFailed(r.op, a))
              /\ r.ret = "ok" <=> AttemptOk(r.op, a[Len(a)])

C6_Witness ==
    /\ retry.r.phase = "returned" /\ retry.r.ret = "fail"
    /\ Len(retry.answers) = MAX_RETRIES

\* C7: whenever the exchange answers a cancel with "not found" or "already",
\* as a raised exception or as a non-ok result, on whichever attempt, that
\* attempt is the last one and cancel_order_with_retry returns success.
C7_GoneOrderIsSuccess ==
    retry.r.op = "cancel" =>
        \A i \in DOMAIN retry.answers :
            retry.answers[i].kw # "none" =>
                (i = Len(retry.answers) /\ retry.r.ret = "ok")

----------------------------------------------------------------------------
(* Properties of the position monitor (SpecMon) *)

TradesOf(p) ==
    {k \in DOMAIN trades :
        trades[k].user_id = p.user_id /\ trades[k].kraken_order_id = OrderRef(p, "entry")}

\* A broadcast signal with the same base instrument and an equivalent action
\* inside the lookback window
SameInstrumentSignal(p) ==
    \E s \in DOMAIN signals :
        /\ get_base_symbol(signals[s].symbol) = get_base_symbol(p.symbol)
        /\ SignalAction(NormalizeSide(signals[s].action)) = SignalAction(NormalizeSide(p.side))
        /\ signals[s].age <= LOOKBACK_MINUTES

\* C8: a position without signal id, beside which no signal of the same base
\* instrument and equivalent action was broadcast within the lookback, never
\* gets a Trade row or the status 'closed', and the subscriber's profit and
\* trade counters stay as they were.
C8_ManualCloseNotBilled ==
    mon.phase # "off" =>
        \A i \in DOMAIN open_positions :
            LET p == open_positions[i] IN
            (p.signal_id = NULL /\ ~SameInstrumentSignal(p)) =>
                /\ TradesOf(p) = {}
                /\ p.status # "closed"
                /\ users[p.user_id].total_trades = InitUsers[p.user_id].total_trades
                /\ users[p.user_id].total_profit = InitUsers[p.user_id].total_profit
                /\ users[p.user_id].current_cycle_profit
                       = InitUsers[p.user_id].current_cycle_profit
                /\ users[p.user_id].current_cycle_trades
                       = InitUsers[p.user_id].current_cycle_trades

\* C9: over any sequence of monitor ticks a position gets at most one Trade
\* row, and exactly one once its status is 'closed'.
C9_ExactlyOneTrade ==
    mon.phase # "off" =>
        \A i \in DOMAIN open_positions :
            LET p == open_positions[i] IN
            /\ Cardinality(TradesOf(p)) <= 1
            /\ p.status = "closed" => Cardinality(TradesOf(p)) = 1

----------------------------------------------------------------------------
(* Properties of the delivery flags *)

\* The positions of execute_trade after its call of acknowledge_signal
ExecPcs == {"check0", "gate", "entry", "tp", "sl", "cancel", "emergency", "record"}

Selected(t) == tasks[t].pc # "start" /\ tasks'[t].pc = "start"

\* C12: a delivery that is acknowledged and executed stays so in every step
\* but a reset by retry_failed_signal (which takes failed = true to false),
\* and no tick selects a delivery whose acknowledged flag is set; so a
\* delivery whose run failed is not selected again unless the retry reset it.
C12_FailedStaysAcknowledged ==
    [][/\ \A d \in DOMAIN deliveries :
             (\/ deliveries[d].acknowledged /\ ~deliveries'[d].acknowledged
              \/ deliveries[d].executed /\ ~deliveries'[d].executed)
             => (deliveries[d].failed /\ ~deliveries'[d].failed)
       /\ \A t \in TaskIds : Selected(t) => ~deliveries[DeliveryOf(t)].acknowledged]_vars

\* The executor has reported a failure, the tick is over, and the delivery is
\* acknowledged and executed
C12_Witness ==
    \E t \in TaskIds :
        /\ tasks[t].pc = "done" /\ tasks[t].result = "false"
        /\ tasks[t].entry = "none" /\ loops[LoopOf(t)] = "idle"
        /\ deliveries[DeliveryOf(t)].acknowledged
        /\ deliveries[DeliveryOf(t)].executed

\* C13: the deliveries a tick selects are exactly those whose subscriber is
\* active, has credentials, has access and no overdue invoice, that are
\* neither acknowledged nor marked failed, and whose signal is inside the
\* 15-minute window.
C13_SelectedIffEligible ==
    [][\A L \in Loops :
          (loops[L] = "idle" /\ loops'[L] = "polling") =>
             {DeliveryOf(t) : t \in {t2 \in TaskIds : LoopOf(t2) = L /\ tasks'[t2].pc = "start"}}
             = {d \in DOMAIN deliveries :
                   /\ users[d[1]].agent_active
                   /\ users[d[1]].credentials_set
                   /\ users[d[1]].access_granted
                   /\ ~users[d[1]].invoice_overdue
                   /\ ~deliveries[d].acknowledged
                   /\ ~deliveries[d].failed
                   /\ signals[d[2]].age < SIGNAL_WINDOW_MINUTES}]_vars

\* C17: after a run whose entry was placed and whose TP or SL placement was
\* exhausted, there is no Open Position row of the run and the delivery is
\* marked failed.
C17_FailedBracketMarked ==
    \A t \in TaskIds :
        (/\ tasks[t].pc = "done" /\ tasks[t].entry # "none"
         /\ (tasks[t].tp = "none" \/ tasks[t].sl = "none")) =>
            /\ ~HasRow(t)
            /\ deliveries[DeliveryOf(t)].failed

\* C20: no tick selects a delivery whose signal is older than 15 minutes,
\* get_latest_signal returns no such signal, and no step removes a signal
\* or a delivery row.
C20_NoExpiredSignalDelivered ==
    [][/\ \A t \in TaskIds :
             Selected(t) => signals[SignalOf(t)].age <= SIGNAL_WINDOW_MINUTES
       /\ \A u \in Users :
             get_latest_signal(u).answer = "signal" =>
                signals[get_latest_signal(u).delivery[2]].age <= SIGNAL_EXPIRATION_MINUTES
       /\ DOMAIN signals' = DOMAIN signals
       /\ DOMAIN deliveries' = DOMAIN deliveries]_vars

\* get_latest_signal has met a delivery of a signal past the window: it is
\* acknowledged, nothing was returned, and both rows are still there
C20_Witness ==
    \E e \in history.events :
        /\ e.ev = "expired"
        /\ e.delivery \in DOMAIN deliveries
        /\ signals[e.delivery[2]].age > SIGNAL_EXPIRATION_MINUTES

----------------------------------------------------------------------------
(* Properties of execute_trade's gate, validation and failure handling *)

EntryPlacedBy(t) == \E e \in history.events : e.ev = "entry_placed" /\ e.task = t

\* C14: a run whose gate ran while the subscriber had an Open Position row
\* for the signal, a trade of the signal closed in the last 60 seconds, a
\* nonzero position or an open order on the exchange, places no order and
\* writes no Open Position row.
C14_GateBlocks ==
    \A t \in TaskIds :
        tasks[t].held =>
            /\ tasks[t].pc \notin {"entry", "tp", "sl", "cancel", "emergency", "record"}
            /\ ~EntryPlacedBy(t)
            /\ ~HasRow(t)

\* C15: a run whose signal fails validation or whose sized quantity rounds to
\* zero has ended without an order and without an Open Position row, and the
\* operator was notified of it.
C15_RejectedAndNotified ==
    \A t \in TaskIds :
        tasks[t].sized \in {"missing_sl_tp", "invalid_values", "sl_distance_zero",
                            "rounds_to_zero"} =>
            /\ tasks[t].pc = "done" /\ tasks[t].result = "false"
            /\ ~EntryPlacedBy(t) /\ ~HasRow(t)
            /\ \E a \in alerts : a.task = t

\* C16: a run that has ended, by return or by cancellation, with its entry
\* placed and its TP or SL missing has attempted the emergency close and has
\* reported the outcome through the notifier.
C16_IncompleteBracketReported ==
    \A t \in TaskIds :
        (/\ tasks[t].pc \in {"done", "crashed"}
         /\ tasks[t].entry # "none"
         /\ (tasks[t].tp = "none" \/ tasks[t].sl = "none")) =>
            /\ tasks[t].close # "none"
            /\ \E a \in alerts : a.task = t /\ a.title = "BRACKET_INCOMPLETE"

----------------------------------------------------------------------------
(* Properties of the control loops (SpecRun) *)

\* C18: in both control loops, a tick that raised is followed by another
\* tick unless the loop is cancelled first, and a loop that has left its
\* while loop was cancelled.
C18_LoopSurvivesErrors ==
    \A k \in {"L1", "monitor"} :
        /\ (loops[k] = "handler") ~> (loops[k] \in {"tick", "cancelled"})
        /\ [](loops[k] \notin {"tick", "sleep", "handler", "error_sleep"}
                => loops[k] = "cancelled")

\* Both loops have handled a raising tick and stand in a tick again
C18_Witness ==
    \A k \in {"L1", "monitor"} :
        /\ loops[k] = "tick"
        /\ \E e \in history.events : e.ev = "loop_error" /\ e.loop = k

----------------------------------------------------------------------------
(* Properties of the delivery endpoints *)

\* C21: for every delivery row and every pair of requests, a confirm_execution
\* that follows a confirmation (or the trading loop's acknowledgment) answers
\* already_confirmed and leaves the row, with acknowledged, acknowledged_at,
\* executed, executed_at and execution_price, as it found it.
C21_ConfirmIdempotent ==
    \A d \in DOMAIN deliveries : \A data1, data2 \in ConfirmRequests :
        \A later \in {0, 1} :
            LET now    == signals[d[2]].age
                first  == confirm_execution(deliveries[d], data1, now)
                second == confirm_execution(first.delivery, data2, now + later)
            IN  /\ first.delivery.executed
                /\ second.status = "already_confirmed"
                /\ second.delivery = first.delivery

\* A delivery an agent has confirmed with a price, at a time that is past
\* the confirmation
C21_Witness ==
    \E d \in DOMAIN deliveries :
        /\ deliveries[d].executed
        /\ deliveries[d].execution_price = Some(51)
        /\ deliveries[d].executed_at # None
        /\ signals[d[2]].age > Val(deliveries[d].executed_at)

----------------------------------------------------------------------------
(* Properties of the bracket placement *)

LegAlert(t, title) == \E a \in alerts : a.task = t /\ a.title = title

\* C22: a run stands at (or has made) a take-profit attempt only after its
\* entry placement returned an order, and at a stop-loss attempt only after
\* its take-profit placement returned one; a run whose entry was exhausted
\* has made no TP or SL attempt.
C22_LegsSequential ==
    \A t \in TaskIds :
        LET u == UserOf(t) IN
        /\ (\/ tasks[t].pc = "tp" \/ tasks[t].tp # "none"
            \/ Oid(t, "tp") \in exch[u].orders \/ LegAlert(t, "TP_FAILED"))
              => tasks[t].entry # "none"
        /\ (\/ tasks[t].pc = "sl" \/ tasks[t].sl # "none"
            \/ Oid(t, "sl") \in exch[u].orders \/ LegAlert(t, "SL_FAILED"))
              => (tasks[t].entry # "none" /\ tasks[t].tp # "none")
        /\ LegAlert(t, "ENTRY_FAILED")
              => /\ tasks[t].tp = "none" /\ tasks[t].sl = "none"
                 /\ Oid(t, "tp") \notin exch[u].orders /\ Oid(t, "sl") \notin exch[u].orders
                 /\ ~LegAlert(t, "TP_FAILED") /\ ~LegAlert(t, "SL_FAILED")

\* A run in its stop-loss retries, after a placed entry and a placed TP
C22_Witness ==
    \E t \in TaskIds :
        /\ tasks[t].pc = "sl" /\ tasks[t].r.calls > 0
        /\ tasks[t].entry # "none" /\ tasks[t].tp # "none"

----------------------------------------------------------------------------
(* Properties of the retry helpers, continued (SpecRetry) *)

\* C24: in every retried operation the i-th wait is INITIAL_BACKOFF doubled
\* i-1 times and capped at MAX_BACKOFF; there is one wait after each failed
\* attempt that is followed by another attempt, and none after the attempt
\* that returns, be it a success or the last failure.
C24_BackoffBetweenAttempts ==
    LET r == retry.r IN
    /\ \A i \in DOMAIN r.sleeps :
          r.sleeps[i] = Min(INITIAL_BACKOFF * 2^(i - 1), MAX_BACKOFF)
    /\ Len(r.sleeps) = IF r.phase = "returned" THEN r.calls - 1 ELSE r.calls
    /\ Len(r.sleeps) = r.attempt - 1

\* An operation that failed on every attempt: it waited 1s and 2s
C24_Witness ==
    /\ retry.r.phase = "returned" /\ retry.r.ret = "fail"
    /\ retry.r.sleeps = <<1, 2>>

----------------------------------------------------------------------------
(* Properties of the position monitor, continued (SpecMon) *)

\* C25: a cancel of the position monitor that the exchange answers with an
\* error is repeated until MAX_RETRIES calls have been made, as
\* cancel_order_with_retry does for the trading loop.
C25_MonitorCancelRetried ==
    \A i \in DOMAIN mon.checks :
        (mon.checks[i].cancel_calls > 0 /\ mon.checks[i].cancel_ret = "raise")
            => mon.checks[i].cancel_calls = MAX_RETRIES

\* The exchange reports a nonzero position of the subscriber, on the row's
\* instrument or on another one
HoldsPosition(u) == \E c \in DOMAIN exch[u].positions : exch[u].positions[c] # 0

\* C26: a step of the position monitor taken while the exchange reports a
\* nonzero position of the subscriber, on the row's instrument or on any
\* other, changes no position row, writes no Trade row, changes no subscriber
\* statistic and cancels no order.
C26_NoActionWhilePositionHeld ==
    [][(mon' # mon /\ \A i \in DOMAIN open_positions : HoldsPosition(open_positions[i].user_id))
          => UNCHANGED <<open_positions, trades, users, exch>>]_vars

\* The row's instrument is flat, another one is not, and the check has ended
C26_Witness ==
    /\ Checking(1, "done")
    /\ exch["u1"].positions[open_positions[1].hl_coin] = 0
    /\ HoldsPosition("u1")
    /\ open_positions[1].status = "open"
    /\ trades = << >>

\* Both triggers of row i are among the open orders of its account
BothTriggersRest(i) ==
    /\ OrderExists(exch[open_positions[i].user_id], open_positions[i], "tp")
    /\ OrderExists(exch[open_positions[i].user_id], open_positions[i], "sl")

\* C27: a check that finds no position of the subscriber while the open
\* orders it is given hold both the TP and the SL order ends as an anomaly:
\* the row stays 'open', no Trade row is written, no order is cancelled, and
\* the next tick takes the row up again.
C27_AnomalyLeftForNextTick ==
    [][/\ \A i \in DOMAIN open_positions :
            (/\ Checking(i, "check") /\ mon'.checks[i].pc # "check"
             /\ faults' = faults
             /\ ~HoldsPosition(open_positions[i].user_id)
             /\ BothTriggersRest(i))
            => /\ mon'.checks[i].pc = "done" /\ mon'.checks[i].anomaly
               /\ open_positions'[i].status = "open"
               /\ UNCHANGED <<open_positions, trades, users, exch>>
       /\ (mon.phase = "idle" /\ mon'.phase = "checking")
            => \A i \in DOMAIN open_positions :
                   open_positions[i].status = "open"
                     => i \in DOMAIN mon'.checks /\ mon'.checks[i].pc = "check"]_vars

\* A second tick takes up the row whose first check ended as an anomaly
C27_Witness ==
    /\ mon.ticks = 2
    /\ Checking(1, "done") /\ mon.checks[1].anomaly
    /\ ~HoldsPosition("u1") /\ BothTriggersRest(1)
    /\ open_positions[1].status = "open"
    /\ trades = << >>

\* C28: a check that finds the bracket resolved without an exit price writes
\* no Trade row and no statistic and, its UPDATE done, leaves the row as
\* needs_review; a row that is needs_review stays so and no later tick
\* starts a check of it.
C28_NoExitPriceNeedsReview ==
    [][\A i \in DOMAIN open_positions :
          /\ (Checking(i, "check") /\ mon'.checks[i].pc = "review")
               => UNCHANGED <<open_positions, trades, users, exch>>
          /\ (Checking(i, "review") /\ mon'.checks[i].pc # "review")
               => /\ mon'.checks[i].pc = "done"
                  /\ faults' = faults => open_positions'[i].status = "needs_review"
                  /\ UNCHANGED <<trades, users, exch>>
          /\ open_positions[i].status = "needs_review"
               => /\ open_positions'[i].status = "needs_review"
                  /\ i \in DOMAIN mon'.checks => mon'.checks[i].pc = "done"]_vars

\* A later tick runs and takes up no row, the only one being needs_review
C28_Witness ==
    /\ open_positions[1].status = "needs_review"
    /\ mon.phase = "checking" /\ mon.ticks >= 2
    /\ DOMAIN mon.checks = {}
    /\ trades = << >>
    /\ users = InitUsers

\* C29: every Trade row carries TP when its exit price is strictly closer to
\* the row's target_tp than to its target_sl and SL otherwise, the tie
\* included, so never UNKNOWN, whichever of the two orders is still resting.
C29_ExitTypeByProximity ==
    \A k \in DOMAIN trades :
        LET p  == open_positions[1]
            px == trades[k].exit_price
            dt == (px - p.target_tp) * (px - p.target_tp)
            ds == (px - p.target_sl) * (px - p.target_sl)
        IN  /\ trades[k].exit_type \in {"TP", "SL"}
            /\ trades[k].exit_type = "TP" <=> dt < ds

\* A Trade at the same distance from both targets, recorded while the SL order
\* rests and the TP order does not (the open orders point to TP)
C29_Witness ==
    /\ Checking(1, "cancel")
    /\ Len(trades) = 1
    /\ trades[1].exit_price = 51 /\ open_positions[1].target_tp = 55
    /\ trades[1].exit_type = "SL"
    /\ OrderRef(open_positions[1], "tp") \notin exch["u1"].orders
    /\ OrderRef(open_positions[1], "sl") \in exch["u1"].orders

\* C30: once a tick that recorded the closure of a bracket has completed, with
\* no call of the run having failed, neither the TP nor the SL order of the
\* bracket is among the open orders of the account.
C30_NoOrderLeftAfterClosure ==
    \A i \in DOMAIN open_positions :
        (/\ open_positions[i].status = "closed"
         /\ mon.phase = "idle"
         /\ faults = 0)
        => /\ OrderRef(open_positions[i], "tp") \notin exch[open_positions[i].user_id].orders
           /\ OrderRef(open_positions[i], "sl") \notin exch[open_positions[i].user_id].orders

----------------------------------------------------------------------------
(* Properties of fill ingestion (SpecFills) *)

\* C31: however often a fill is ingested for a subscriber, by repeated scans
\* or by two scans running at once, record_fill reports it as new at most
\* once, and it is reported as new only if its row is in the audit table.
C31_FillReportedNewOnce ==
    \A row \in DOMAIN mon.reported :
        /\ mon.reported[row] <= 1
        /\ mon.reported[row] > 0 => row \in mon.position_fills

----------------------------------------------------------------------------
(* Properties of the batches of a tick (SpecBatch) *)

\* C32: in a tick no item is handed to an execution twice, no batch and no
\* set of running executions exceeds BATCH_SIZE, a batch is started only when
\* no execution is running, the delays taken are one per batch already
\* followed by another, and at the end of the tick every item was executed
\* once and the delays are one less than the batches.
C32_BatchesPartitionPending ==
    LET b == BatchTick IN
    /\ \A k \in DOMAIN b.launched : b.launched[k] <= 1
    /\ b.running <= BATCH_SIZE /\ b.largest <= BATCH_SIZE
    /\ b.pc \in {"batch", "sleep"} => b.running = 0
    /\ b.delays * BATCH_SIZE = b.i
    /\ b.pc \in {"batch", "gather", "sleep"} => b.i < b.pending
    /\ b.pc = "done"
         => /\ \A k \in 1..b.pending : b.launched[k] = 1
            /\ b.running = 0
            /\ b.delays = IF b.pending = 0 THEN 0 ELSE (b.pending - 1) \div BATCH_SIZE

\* A tick over 51 deliveries has ended after three batches and two delays
C32_Witness ==
    /\ BatchTick.pc = "done"
    /\ BatchTick.pending = 2 * BATCH_SIZE + 1
    /\ BatchTick.delays = 2
    /\ BatchTick.largest = BATCH_SIZE

----------------------------------------------------------------------------
(* Properties of the delivery flags (SpecApi) *)

\* The subscriber satisfies the conditions get_pending_signals_batched puts
\* on follower_users
Served(u) ==
    /\ users[u].agent_active /\ users[u].credentials_set
    /\ users[u].access_granted /\ ~users[u].invoice_overdue

\* A delivery that was acknowledged once and is pending again: only the retry
\* operation takes acknowledged back
WasReset(d) ==
    /\ ~deliveries[d].acknowledged /\ ~deliveries[d].failed /\ ~deliveries[d].executed
    /\ deliveries[d].acknowledged_at # None

\* The retry operation on any delivery by any caller: a reset to pending for
\* the caller's own failed delivery, not-found and no change otherwise
RetryResetsOwnFailedOnly ==
    \A d \in DOMAIN deliveries : \A caller \in Callers :
        LET res == retry_failed_signal(caller, d, deliveries[d]) IN
        IF caller = d[1] /\ deliveries[d].failed
        THEN /\ res.status = "reset_for_retry"
             /\ ~res.delivery.failed /\ ~res.delivery.acknowledged /\ ~res.delivery.executed
        ELSE /\ res.status = "not_found"
             /\ res.delivery = deliveries[d]

\* C33: the retry operation resets the caller's own failed delivery and
\* nothing else; a reset delivery whose signal is inside the window and whose
\* subscriber the loop still serves is in the next tick's fetch, and the tick
\* starts an execution for it.
C33_RetryResetsAndIsPickedUp ==
    [][/\ RetryResetsOwnFailedOnly
       /\ \A d \in DOMAIN deliveries :
            (WasReset(d) /\ signals[d[2]].age < SIGNAL_WINDOW_MINUTES /\ Served(d[1]))
            => /\ d \in get_pending_signals_batched
               /\ \A L \in Loops :
                    (loops[L] = "idle" /\ loops'[L] = "polling") => tasks'[<<L, d>>].pc = "start"]_vars

\* A tick has started an execution for a delivery that was reset
C33_Witness ==
    \E t \in TaskIds :
        /\ tasks[t].pc = "start"
        /\ WasReset(DeliveryOf(t))

\* C33 as stated: a reset delivery whose signal is inside the window is in
\* the next tick's fetch.
C33_ResetPickedUpInsideWindow ==
    \A d \in DOMAIN deliveries :
        (WasReset(d) /\ signals[d[2]].age < SIGNAL_WINDOW_MINUTES)
            => d \in get_pending_signals_batched

\* C34: in every reachable state each delivery is pending (no flag set),
\* acknowledged and executed (not failed), or acknowledged and failed (not
\* executed).
C34_DeliveryFlagsInThreeStates ==
    \A d \in DOMAIN deliveries :
        LET r == deliveries[d] IN
        \/ ~r.acknowledged /\ ~r.executed /\ ~r.failed
        \/ r.acknowledged /\ r.executed /\ ~r.failed
        \/ r.acknowledged /\ ~r.executed /\ r.failed

----------------------------------------------------------------------------
(* Properties of the position monitor, terminal rows (SpecMon) *)

TerminalStatus == {"closed", "closed_manual", "needs_review"}

\* C35: a row whose status is closed, closed_manual or needs_review keeps
\* that status; no tick starts a check of it; and once the check that closed
\* it has ended, no step of the monitor writes a Trade or cancels an order.
C35_ClosureIsTerminal ==
    [][\A i \in DOMAIN open_positions :
          open_positions[i].status \in TerminalStatus
          => /\ open_positions'[i].status = open_positions[i].status
             /\ (mon.phase = "idle" /\ mon'.phase = "checking") => i \notin DOMAIN mon'.checks
             /\ (mon' # mon /\ (i \notin DOMAIN mon.checks \/ mon.checks[i].pc = "done"))
                  => UNCHANGED <<trades, users, exch>>]_vars

\* A later tick takes up no row, the only one being closed with its Trade
C35_Witness ==
    /\ open_positions[1].status = "closed"
    /\ mon.phase = "checking" /\ mon.ticks >= 2
    /\ DOMAIN mon.checks = {}
    /\ Len(trades) = 1

----------------------------------------------------------------------------
(* Properties of the sizing, continued (SpecSize) *)

----------------------------------------------------------------------------
(* Properties of the position monitor under fair ticks (SpecMonLive) *)

\* C37: a row that is open while the exchange reports no position of the
\* subscriber and at most one of its TP and SL orders rests leaves status
\* open at some later time.
C37_FlatPositionLeavesOpen ==
    (/\ open_positions[1].status = "open"
     /\ ~HoldsPosition(open_positions[1].user_id)
     /\ ~BothTriggersRest(1))
    ~> (open_positions[1].status # "open")

(* Properties of the gate's error handling *)

\* C38: every entry order placed by a run was placed after a gate whose
\* store lookup, position query and open-order query all answered; a run
\* whose gate met a raising lookup or query places no entry order.
C38_EntryOnlyAfterAnsweredGate ==
    \A e \in history.events : e.ev = "entry_placed" => e.gate = "clean"

(* Properties of the emergency close's report *)

\* C39: a BRACKET_INCOMPLETE alert saying SUCCESSFUL belongs to a run whose
\* reduce-only close order was sent and answered as filled, whichever of the
\* two trigger placements was exhausted.
C39_SuccessfulMeansCloseFilled ==
    \A a \in alerts :
        (a.title = "BRACKET_INCOMPLETE" /\ a.text[2] = "SUCCESSFUL") =>
            \E e \in history.events :
                e.ev = "close_sent" /\ e.task = a.task /\ e.answer = "filled"

\* The part of C39 about a close that never went out: a missing mid price or
\* a raising read is reported as FAILED.
C39_NoOrderSentReportedFailed ==
    \A a \in alerts :
        (/\ a.title = "BRACKET_INCOMPLETE"
         /\ ~\E e \in history.events : e.ev = "close_sent" /\ e.task = a.task) =>
            a.text[2] = "FAILED"

(* Properties of the statistics record_trade_close keeps *)

\* The Trade rows inserted for a subscriber
TradeRowsFor(u) == {k \in DOMAIN trades : trades[k].user_id = u}

RECURSIVE SumProfitUsd(_, _)
\* The sum of profit_usd over the first n Trade rows, those of u only
SumProfitUsd(u, n) ==
    IF n = 0 THEN 0
    ELSE SumProfitUsd(u, n - 1) + (IF trades[n].user_id = u THEN trades[n].profit_usd ELSE 0)

\* C40: after any sequence of monitor ticks, failing store writes included,
\* each subscriber's total_trades and current_cycle_trades count the Trade
\* rows inserted for them, total_profit is the sum of their profit_usd, and
\* every such row belongs to a position whose status is 'closed'.
C40_StatsMatchTradeRows ==
    mon.phase # "off" =>
        \A u \in Users :
            /\ users[u].total_trades
                   = InitUsers[u].total_trades + Cardinality(TradeRowsFor(u))
            /\ users[u].current_cycle_trades
                   = InitUsers[u].current_cycle_trades + Cardinality(TradeRowsFor(u))
            /\ users[u].total_profit
                   = InitUsers[u].total_profit + SumProfitUsd(u, Len(trades))
            /\ \A k \in TradeRowsFor(u) :
                   \E i \in DOMAIN open_positions :
                       /\ k \in TradesOf(open_positions[i])
                       /\ open_positions[i].status = "closed"

====
